---------------------------- MODULE Spec2Model ----------------------------
(***************************************************************************)
(* A model of the mosdns-x request pipeline: the racing upstream client    *)
(* (pkg/bundled_upstream), the listeners and the entry handler             *)
(* (pkg/server, pkg/server/dns_handler, pkg/query_context) and the cache   *)
(* plugin with its in-memory backend (plugin/executable/cache,             *)
(* pkg/cache/mem_cache, pkg/dnsutils).                                     *)
(*                                                                         *)
(* Each subsystem has its own specification over the shared variable list: *)
(*   SpecRace   ExchangeParallel                                           *)
(*   SpecServe  listener -> entry handler -> plugin graph -> reply         *)
(*   SpecCache  cache plugin Exec / tryStore / doLazyUpdate and MemCache   *)
(* The variables of the other subsystems stay at their initial values.     *)
(***************************************************************************)
EXTENDS Integers, Sequences, FiniteSets, TLC

(***************************************************************************)
(* State.                                                                  *)
(***************************************************************************)
\* ExchangeParallel (pkg/bundled_upstream)
VARIABLES
    upstreams,        \* t = len(upstreams) of this call
    rpc,              \* position of ExchangeParallel: start, single, loop, done
    task,             \* per upstream goroutine: [st, res]
    chanC,            \* the buffered channel c (capacity t)
    chanClosed,       \* close(c) has run
    taskCtxDone,      \* taskCtx is cancelled
    ctxDone,          \* the caller's ctx is cancelled
    errMsgs,          \* len(errMsgs)
    bestFallbackRes,
    bestFallbackRaw,
    bestPrio,
    ret,              \* what ExchangeParallel returned: [r, raw, err]
    received,         \* history: the results the loop has taken from c
    answered          \* history: an upstream has returned NOERROR with an answer

raceVars == <<upstreams, rpc, task, chanC, chanClosed, taskCtxDone, ctxDone,
              errMsgs, bestFallbackRes, bestFallbackRaw, bestPrio, ret, received,
              answered>>

\* Listeners and entry handler (pkg/server, pkg/query_context)
VARIABLES
    opts,             \* EntryHandlerOpts
    hasRawHandler,    \* handler.(dns_handler.RawHandler) succeeds
    hasCharTable,     \* the handler's ServeDNS consults preRejectValidChar
    spc,              \* position of the request: idle, dispatch, graph, write, done
    protocol,         \* the listener that took the query
    req,              \* the query *dns.Msg (the gatekeeper rewrites its name)
    lqCtx,            \* the query context the UDP/TCP listener creates
    hqCtx,            \* the query context EntryHandler.ServeDNS creates
    handlerErr,       \* the error the handler returned to the listener
    handlerR,         \* the *dns.Msg ServeDNS returned
    written,          \* the bytes handed to the client socket (<< >>: none)
    released,         \* how often the pooled buffer's release func has run
    connClosed,       \* the QUIC connection was closed with an error
    graphRan,         \* history: Entry.Exec was called for this query
    graphQ,           \* history: the query Entry.Exec was given
    graphErr,         \* history: the error Entry.Exec returned
    graphRaw          \* history: the raw response the graph left attached

serveVars == <<opts, hasRawHandler, hasCharTable, spc, protocol, req, lqCtx, hqCtx, handlerErr, handlerR,
               written, released, connClosed, graphRan, graphQ, graphErr, graphRaw>>

reqVars == <<opts, hasRawHandler, hasCharTable, protocol, req>>

\* Cache plugin and MemCache (plugin/executable/cache, pkg/cache/mem_cache)
VARIABLES
    args,             \* the cache plugin's Args
    clock,            \* the wall clock (time.Now()) in nanoseconds since the epoch
    closed,           \* MemCache.closed
    lru,              \* MemCache.lru: key -> *elem
    sfCalls,          \* lazyUpdateSF: the keys with a call in its map
    nExec,            \* per key: refresh goroutines inside ExecChainNode
    nDefer,           \* per key: refresh goroutines between tryStore and Forget
    cq,               \* the client queries inside cachePlugin.Exec
    sfQ,              \* per key: the query whose copied context the refresh runs on
    last,             \* the query whose Exec is returning from a hit, as it returns
    lazyRuns,         \* history, per key: chain executions started by doLazyUpdate
    genStarted,       \* history, per key: values of lazyRuns seen at Get by queries whose doLazyUpdate started an execution
    dupRun            \* history, per key: two queries that saw the same lazyRuns at Get both started an execution

cacheVars == <<args, clock, closed, lru, sfCalls, nExec, nDefer, cq, sfQ, last,
               lazyRuns, genStarted, dupRun>>

\* query_context.Context as an object (pkg/query_context/context.go)
VARIABLES
    cx,               \* the contexts: [live, ctx]
    bufAttached,      \* the pooled buffer has been attached with SetRawResponse
    releaseFuncCalls, \* how often the buffer's release func has run
    releaseRawRCalls  \* history: how often ReleaseRawR has been called

ctxVars == <<cx, bufAttached, releaseFuncCalls, releaseRawRCalls>>

\* The byte slices of MemCache.Store and of a cache hit (pkg/cache/mem_cache)
VARIABLES
    storeCopies,      \* the build's Store copies its input into a buffer of its own
    inPacket,         \* the bytes of the slice the caller handed to Store
    ownBuf,           \* the bytes of the buffer Store allocated (buf)
    elemPacket,       \* what elem.packet refers to: nil, the caller's slice, or buf
    elemOffsets,      \* elem.ttlOffsets and elem.ttlCount
    hitRespRaw,       \* the bytes of the per-request buffer (respRaw) of the last hit
    storedBytes       \* history: the bytes of the input when Store was called

storeVars == <<storeCopies, inPacket, ownBuf, elemPacket, elemOffsets, hitRespRaw, storedBytes>>

\* MemCache over the sharded LRU (pkg/concurrent_lru, pkg/lru)
VARIABLES
    cacheSize,        \* the size NewMemCache was called with
    shardOf,          \* per key: maphash.String(seed, key) & mask
    shardList,        \* per shard: the keys of LRU.l, oldest first
    evicted           \* history: an Add has reused the oldest element

lruVars == <<cacheSize, shardOf, shardList, evicted>>

\* MemCache as a key-value store under concurrent callers (mem_cache.go:108-228)
VARIABLES
    kvClosed,         \* MemCache.closed
    kvList,           \* the keys of the shard's LRU list, oldest first
    kvVal,            \* per key: elem.v of its element (0: no element)
    kvCall,           \* per caller: the Store call it is in, past isClosed
    kvLast            \* history, per key: the value of the last Store in lock
                      \* order, whether it replaced the value of an element, and
                      \* whether the key was evicted or swept since

kvVars == <<kvClosed, kvList, kvVal, kvCall, kvLast>>

\* dnsutils.GetMsgKey on two queries (pkg/dnsutils/msg.go, part_004)
VARIABLES
    keyOneArg,        \* the build's GetMsgKey is the one of part_004 (no salt)
    keySalt,          \* salt
    keyEverything,    \* cacheEverything
    keyQ1,            \* the first query
    keyQ2,            \* the second query
    keyOut            \* the results of GetMsgKey for the two (<< >>: not called)

keyVars == <<keyOneArg, keySalt, keyEverything, keyQ1, keyQ2, keyOut>>

\* The lazy refresh next to the request that started it (plugin/executable/cache)
VARIABLES
    copyInTask,       \* the build's doLazyUpdate copies the context inside the singleflight function
    reqPc,            \* position of Exec on the hit path: hit, spawned, raw, responded, returned
    reqQCtx,          \* the query context of the request
    reqDone,          \* the request's context.Context is done
    taskPc,           \* position of the singleflight function: none, copy, ctx, chain, done
    lQCtx,            \* the copied query context the refresh runs the chain on
    bgDone,           \* bgCtx's timer fired or its cancel func ran
    bgElapsed,        \* seconds since bgCtx was made
    refreshStored,    \* history: what the refresh gave to tryStore, [r, own]
    refreshErr,       \* history: the error the chain of the refresh returned
    copyRaced         \* history: Copy read the context before the hit path's writes were over

rfVars == <<copyInTask, reqPc, reqQCtx, reqDone, taskPc, lQCtx, bgDone, bgElapsed, refreshStored, refreshErr, copyRaced>>

\* tryStore applied to one response (plugin/executable/cache)
VARIABLES
    tsReply,          \* the response tryStore is called with
    tsDone            \* tryStore has returned

tsVars == <<tsReply, tsDone>>

\* One invocation of ConditionNode.Exec (pkg/executable_seq)
VARIABLES
    cnMatcher,        \* what ConditionMatcher.Match gives, or absent
    cnThen,           \* length of ExecutableNode's chain (0: nil)
    cnElse,           \* length of ElseExecutableNode's chain (0: nil)
    cnNext,           \* the node has an outer next
    cnPc,             \* the node being executed: [at, k]
    ranThen,          \* history: how often the then subchain was entered
    ranElse,          \* history: how often the else subchain was entered
    ranNext,          \* history: how often the outer next was executed
    cnErr,            \* the error Exec returns
    cnStopped         \* history: a node of the subchain returned without its next

cnVars == <<cnMatcher, cnThen, cnElse, cnNext, cnPc, ranThen, ranElse, ranNext, cnErr, cnStopped>>

\* The pooled parameter placeholder of the expression matcher (pkg/executable_seq)
VARIABLES
    phPool,           \* paramsPHPool: the placeholders it holds
    phMade,           \* the placeholders newExprParamsPlaceHolder has made
    ph,               \* the placeholders: [ctx, qCtx, res]
    phReq             \* per request: position in Match, its placeholder, what its log read

phVars == <<phPool, phMade, ph, phReq>>

\* SafeClose (pkg/safe_close)
VARIABLES
    scSignal,         \* closeSignal is closed
    scWg,             \* the counter of wg
    scDone,           \* done is closed
    scSub,            \* per Attach call: none, running, finished, refused
    scWait            \* per CloseWait call: idle, signalled, waited, returned

scVars == <<scSignal, scWg, scDone, scSub, scWait>>

\* One shard's LRU with its list elements and map (pkg/lru, pkg/list)
VARIABLES
    lq,               \* the LRU: [nodes, front, back, length, m]
    lnRecency,        \* history: the keys in the order of their last Add or Get, oldest first
    lnLast            \* history: the last call, what it found and what onEvict was called with

lnVars == <<lq, lnRecency, lnLast>>

\* TTL-offset extraction over arbitrary bytes and the hit path's rewrite
VARIABLES
    exWire,           \* the bytes handed to ExtractTTLOffsets
    exPc,             \* "new", "stored" or "hit"
    exOffsets,        \* the entry's offsets array
    exCount,          \* the entry's count
    exRespRaw,        \* the per-request buffer after the rewrite; NilRaw before
    exPanic           \* an index of the rewrite was out of range

exVars == <<exWire, exPc, exOffsets, exCount, exRespRaw, exPanic>>

\* The UDP upstream's pending table (pkg/upstream/udp)
VARIABLES
    udRr,             \* u.rr, the identifier counter
    udPending,        \* u.pending: per identifier the entry's exchange (0: no entry) and whether its deadline has passed
    udPc,             \* per exchange its position in ExchangeContext
    udId,             \* per exchange the identifier claimID returned
    udTries,          \* per exchange the iterations of claimID's loop so far
    udCh,             \* per exchange the messages in its entry's channel
    udRounds,         \* per exchange the calls of ExchangeContext it has begun
    udLast            \* history: the last removal from the table, who made it and what it removed

udVars == <<udRr, udPending, udPc, udId, udTries, udCh, udRounds, udLast>>

vars == <<raceVars, serveVars, cacheVars, ctxVars, storeVars, lruVars, kvVars, keyVars, rfVars, tsVars, cnVars, phVars, scVars, lnVars, exVars, udVars>>

notRace == <<serveVars, cacheVars, ctxVars, storeVars, lruVars, kvVars, keyVars, rfVars, tsVars, cnVars, phVars, scVars, lnVars, exVars, udVars>>

notServe == <<raceVars, cacheVars, ctxVars, storeVars, lruVars, kvVars, keyVars, rfVars, tsVars, cnVars, phVars, scVars, lnVars, exVars, udVars>>

notCache == <<raceVars, serveVars, ctxVars, storeVars, lruVars, kvVars, keyVars, rfVars, tsVars, cnVars, phVars, scVars, lnVars, exVars, udVars>>

notCtx == <<raceVars, serveVars, cacheVars, storeVars, lruVars, kvVars, keyVars, rfVars, tsVars, cnVars, phVars, scVars, lnVars, exVars, udVars>>

notStore == <<raceVars, serveVars, cacheVars, ctxVars, lruVars, kvVars, keyVars, rfVars, tsVars, cnVars, phVars, scVars, lnVars, exVars, udVars>>

notLru == <<raceVars, serveVars, cacheVars, ctxVars, storeVars, kvVars, keyVars, rfVars, tsVars, cnVars, phVars, scVars, lnVars, exVars, udVars>>

notKv == <<raceVars, serveVars, cacheVars, ctxVars, storeVars, lruVars, keyVars, rfVars, tsVars, cnVars, phVars, scVars, lnVars, exVars, udVars>>

notKey == <<raceVars, serveVars, cacheVars, ctxVars, storeVars, lruVars, kvVars, rfVars, tsVars, cnVars, phVars, scVars, lnVars, exVars, udVars>>

notRf == <<raceVars, serveVars, cacheVars, ctxVars, storeVars, lruVars, kvVars, keyVars, tsVars, cnVars, phVars, scVars, lnVars, exVars, udVars>>

notTs == <<raceVars, serveVars, cacheVars, ctxVars, storeVars, lruVars, kvVars, keyVars, rfVars, cnVars, phVars, scVars, lnVars, exVars, udVars>>

notTsCache == <<raceVars, serveVars, ctxVars, storeVars, lruVars, kvVars, keyVars, rfVars, cnVars, phVars, scVars, lnVars, exVars, udVars>>

notCn == <<raceVars, serveVars, cacheVars, ctxVars, storeVars, lruVars, kvVars, keyVars, rfVars, tsVars, phVars, scVars, lnVars, exVars, udVars>>

notPh == <<raceVars, serveVars, cacheVars, ctxVars, storeVars, lruVars, kvVars, keyVars, rfVars, tsVars, cnVars, scVars, lnVars, exVars, udVars>>

notSc == <<raceVars, serveVars, cacheVars, ctxVars, storeVars, lruVars, kvVars, keyVars, rfVars, tsVars, cnVars, phVars, lnVars, exVars, udVars>>

notLn == <<raceVars, serveVars, cacheVars, ctxVars, storeVars, lruVars, kvVars, keyVars, rfVars, tsVars, cnVars, phVars, scVars, exVars, udVars>>

notEx == <<raceVars, serveVars, cacheVars, ctxVars, storeVars, lruVars, kvVars, keyVars, rfVars, tsVars, cnVars, phVars, scVars, lnVars, udVars>>

notUd == <<raceVars, serveVars, cacheVars, ctxVars, storeVars, lruVars, kvVars, keyVars, rfVars, tsVars, cnVars, phVars, scVars, lnVars, exVars>>

(***************************************************************************)
(* Values of github.com/miekg/dns used by the code.                        *)
(***************************************************************************)
RcodeSuccess == 0
RcodeFormatError == 1
RcodeServerFailure == 2
RcodeNameError == 3
RcodeRefused == 5

TypeA == 1
TypePTR == 12
TypeHINFO == 13
TypeAAAA == 28
TypeOPT == 41
TypeHTTPS == 65
TypeANY == 255
ClassINET == 1
ClassCHAOS == 3
OpcodeQuery == 0
OpcodeStatus == 2
MinMsgSize == 512

(* Characters are their ASCII codes; a name is the sequence of the codes of *)
(* its presentation form, root dot included ("a.b." is <<97,46,98,46>>).    *)
ChBang == 33
ChDot == 46
ChUpperA == 65
ChLowerA == 97
ChLowerB == 98

NameAB == <<ChLowerA, ChDot, ChLowerB, ChDot>>

(* A resource record: the header fields the code reads, the owner name and  *)
(* the length of its rdata.                                                 *)
RR(name, type, ttl, rdlen) == [Name |-> name, Rrtype |-> type, Ttl |-> ttl, Rdlength |-> rdlen]

Question(name, qtype, qclass) == [Name |-> name, Qtype |-> qtype, Qclass |-> qclass]

(* A *dns.Msg.  nil = TRUE stands for the nil pointer.                      *)
Msg(id, response, rcode, question, answer, ns, extra) ==
    [nil |-> FALSE, Id |-> id, Response |-> response, Opcode |-> OpcodeQuery,
     Authoritative |-> FALSE, Truncated |-> FALSE, RecursionDesired |-> TRUE,
     RecursionAvailable |-> FALSE, Zero |-> FALSE, Rcode |-> rcode, Compress |-> FALSE,
     Question |-> question, Answer |-> answer, Ns |-> ns, Extra |-> extra]

NilMsg == [Msg(0, FALSE, 0, << >>, << >>, << >>, << >>) EXCEPT !.nil = TRUE]

(* A nil []byte.  len(nil) = 0.                                             *)
NilRaw == << >>

RECURSIVE Zeros(_)
Zeros(n) == IF n <= 0 THEN << >> ELSE <<0>> \o Zeros(n - 1)

RECURSIVE Flatten(_)
Flatten(ss) == IF ss = << >> THEN << >> ELSE Head(ss) \o Flatten(Tail(ss))

(* encoding/binary.BigEndian.PutUint16 / PutUint32 / Uint16 / Uint32.       *)
PutUint16(v) == <<(v \div 256) % 256, v % 256>>

PutUint32(v) == <<(v \div 16777216) % 256, (v \div 65536) % 256, (v \div 256) % 256, v % 256>>

(* b is the wire, off a Go (0-based) offset.                                *)
Uint16(b, off) == b[off + 1] * 256 + b[off + 2]

Uint32(b, off) == b[off + 1] * 16777216 + b[off + 2] * 65536 + b[off + 3] * 256 + b[off + 4]

Bit(b) == IF b THEN 1 ELSE 0

(* The wire form of a name: length-prefixed labels and the zero byte.       *)
RECURSIVE PackLabels(_, _)
PackLabels(name, label) ==
    IF name = << >>
    THEN IF label = << >> THEN <<0>> ELSE <<Len(label)>> \o label \o <<0>>
    ELSE IF Head(name) = ChDot
    THEN (IF label = << >> THEN << >> ELSE <<Len(label)>> \o label) \o PackLabels(Tail(name), << >>)
    ELSE PackLabels(Tail(name), Append(label, Head(name)))

PackName(name) == PackLabels(name, << >>)

(* dns.Msg.Pack (RFC 1035 4.1): the 12-byte header, the questions, then the *)
(* records of Answer, Authority and Additional.  With Compress set an owner *)
(* name equal to the question name is a pointer to offset 12.               *)
PackHeader(m) ==
    PutUint16(m.Id)
    \o <<128 * Bit(m.Response) + 8 * m.Opcode + 4 * Bit(m.Authoritative)
           + 2 * Bit(m.Truncated) + Bit(m.RecursionDesired),
         128 * Bit(m.RecursionAvailable) + 64 * Bit(m.Zero) + m.Rcode>>
    \o PutUint16(Len(m.Question)) \o PutUint16(Len(m.Answer))
    \o PutUint16(Len(m.Ns)) \o PutUint16(Len(m.Extra))

PackQuestion(q) == PackName(q.Name) \o PutUint16(q.Qtype) \o PutUint16(q.Qclass)

PackRR(m, rr) ==
    (IF m.Compress /\ m.Question # << >> /\ rr.Name = m.Question[1].Name /\ rr.Name # <<ChDot>>
     THEN <<192, 12>>
     ELSE PackName(rr.Name))
    \o PutUint16(rr.Rrtype)
    \o PutUint16(IF rr.Rrtype = TypeOPT THEN 1232 ELSE ClassINET)
    \o PutUint32(rr.Ttl) \o PutUint16(rr.Rdlength) \o Zeros(rr.Rdlength)

Pack(m) ==
    PackHeader(m)
    \o Flatten([i \in 1..Len(m.Question) |-> PackQuestion(m.Question[i])])
    \o Flatten([i \in 1..Len(m.Answer) |-> PackRR(m, m.Answer[i])])
    \o Flatten([i \in 1..Len(m.Ns) |-> PackRR(m, m.Ns[i])])
    \o Flatten([i \in 1..Len(m.Extra) |-> PackRR(m, m.Extra[i])])

(* dnsutils.GetHeaderInfo: Rcode is msg[3] & 0xF, ANCount is msg[6:8].      *)
GetHeaderInfo(msg) ==
    IF Len(msg) < 12
    THEN [Rcode |-> -1, ANCount |-> 0]
    ELSE [Rcode |-> msg[4] % 16, ANCount |-> Uint16(msg, 6)]

(* dns.Msg.Unpack.  A name is read label by label, a compression pointer    *)
(* continues at the offset it names; next is the offset after the name in   *)
(* the record.                                                              *)
RECURSIVE UnpackLabels(_, _, _, _, _)
UnpackLabels(wire, off, acc, jumped, next) ==
    IF off >= Len(wire) THEN [ok |-> FALSE, name |-> acc, next |-> off]
    ELSE LET b == wire[off + 1] IN
         IF b = 0
         THEN [ok |-> TRUE, name |-> IF acc = << >> THEN <<ChDot>> ELSE acc,
               next |-> IF jumped THEN next ELSE off + 1]
         ELSE IF b >= 192
         THEN IF off + 1 >= Len(wire) \/ jumped
              THEN [ok |-> FALSE, name |-> acc, next |-> off]
              ELSE UnpackLabels(wire, (b - 192) * 256 + wire[off + 2], acc, TRUE, off + 2)
         ELSE IF off + 1 + b > Len(wire) THEN [ok |-> FALSE, name |-> acc, next |-> off]
         ELSE UnpackLabels(wire, off + 1 + b,
                           acc \o SubSeq(wire, off + 2, off + 1 + b) \o <<ChDot>>, jumped, next)

UnpackName(wire, off) == UnpackLabels(wire, off, << >>, FALSE, off)

RECURSIVE UnpackQuestions(_, _, _)
UnpackQuestions(wire, off, n) ==
    IF n = 0 THEN [ok |-> TRUE, items |-> << >>, next |-> off]
    ELSE LET nm == UnpackName(wire, off) IN
         IF ~nm.ok \/ nm.next + 4 > Len(wire) THEN [ok |-> FALSE, items |-> << >>, next |-> off]
         ELSE LET rest == UnpackQuestions(wire, nm.next + 4, n - 1)
              IN [ok |-> rest.ok,
                  items |-> <<Question(nm.name, Uint16(wire, nm.next), Uint16(wire, nm.next + 2))>>
                            \o rest.items,
                  next |-> rest.next]

RECURSIVE UnpackRRs(_, _, _)
UnpackRRs(wire, off, n) ==
    IF n = 0 THEN [ok |-> TRUE, items |-> << >>, next |-> off]
    ELSE LET nm == UnpackName(wire, off) IN
         IF ~nm.ok \/ nm.next + 10 > Len(wire) THEN [ok |-> FALSE, items |-> << >>, next |-> off]
         ELSE LET rdlen == Uint16(wire, nm.next + 8)
                  rest == UnpackRRs(wire, nm.next + 10 + rdlen, n - 1)
              IN IF nm.next + 10 + rdlen > Len(wire)
                 THEN [ok |-> FALSE, items |-> << >>, next |-> off]
                 ELSE [ok |-> rest.ok,
                       items |-> <<RR(nm.name, Uint16(wire, nm.next), Uint32(wire, nm.next + 4), rdlen)>>
                                 \o rest.items,
                       next |-> rest.next]

Unpack(wire) ==
    IF Len(wire) < 12 THEN [ok |-> FALSE, msg |-> NilMsg]
    ELSE LET qs == UnpackQuestions(wire, 12, Uint16(wire, 4))
             an == UnpackRRs(wire, qs.next, Uint16(wire, 6))
             ns == UnpackRRs(wire, an.next, Uint16(wire, 8))
             ar == UnpackRRs(wire, ns.next, Uint16(wire, 10))
         IN IF ~(qs.ok /\ an.ok /\ ns.ok /\ ar.ok) THEN [ok |-> FALSE, msg |-> NilMsg]
            ELSE [ok |-> TRUE,
                  msg |-> [Msg(Uint16(wire, 0), wire[3] >= 128, wire[4] % 16,
                               qs.items, an.items, ns.items, ar.items)
                           EXCEPT !.Opcode = (wire[3] \div 8) % 16,
                                  !.Authoritative = (wire[3] \div 4) % 2 = 1,
                                  !.Truncated = (wire[3] \div 2) % 2 = 1,
                                  !.RecursionDesired = wire[3] % 2 = 1,
                                  !.RecursionAvailable = wire[4] >= 128,
                                  !.Zero = (wire[4] \div 64) % 2 = 1]]

----------------------------------------------------------------------------
(***************************************************************************)
(* ExchangeParallel (pkg/bundled_upstream/bundled_upstream.go).            *)
(***************************************************************************)
MaxUpstreams == 3

priorityServFail == 0
priorityOther == 1
priorityNoData == 2
priorityNXDomain == 3

Result(r, raw, err) == [r |-> r, raw |-> raw, err |-> err]

NoResult == Result(NilMsg, NilRaw, "nil")

(* The (rcode, answer count) pairs an upstream may answer with.             *)
AnswerShapes == {<<RcodeSuccess, 2>>, <<RcodeSuccess, 0>>, <<RcodeNameError, 0>>,
                 <<RcodeServerFailure, 0>>, <<RcodeRefused, 0>>}

(* The reply of an upstream to the question a.b. IN A.                      *)
UpstreamReply(rcode, an) ==
    Msg(0, TRUE, rcode, <<Question(NameAB, TypeA, ClassINET)>>,
        [i \in 1..an |-> RR(NameAB, TypeA, 300, 4)], << >>, << >>)

RawShapes == {<<RcodeSuccess, 2>>, <<RcodeNameError, 0>>, <<RcodeServerFailure, 0>>}

(* What upstream.ExchangeContext returns: a parsed message, raw wire bytes  *)
(* without a parsed message (the UDP upstream's zero-unpack return), or an  *)
(* error.                                                                   *)
UpstreamResults ==
    {Result(UpstreamReply(s[1], s[2]), NilRaw, "nil") : s \in AnswerShapes}
    \cup {Result(NilMsg, Pack(UpstreamReply(s[1], s[2])), "nil") : s \in RawShapes}
    \cup {Result(NilMsg, NilRaw, "net"), Result(NilMsg, NilRaw, "canceled")}

getRcodePriority(rcode) ==
    CASE rcode = RcodeNameError -> priorityNXDomain
      [] rcode = RcodeSuccess -> priorityNoData
      [] rcode = RcodeServerFailure -> priorityServFail
      [] OTHER -> priorityOther

(* Phase 2: rcode and anCount of a result, from the parsed message when     *)
(* there is one, else from the raw header, else the zero values.            *)
ResRcode(res) ==
    IF ~res.r.nil THEN res.r.Rcode
    ELSE IF Len(res.raw) > 0 THEN GetHeaderInfo(res.raw).Rcode
    ELSE 0

ResANCount(res) ==
    IF ~res.r.nil THEN Len(res.r.Answer)
    ELSE IF Len(res.raw) > 0 THEN GetHeaderInfo(res.raw).ANCount
    ELSE 0

IsPerfectAnyNoError(res) == ResRcode(res) = RcodeSuccess

(* rcode == dns.RcodeSuccess && anCount > 0                                 *)
IsPerfect(res) == ResRcode(res) = RcodeSuccess /\ ResANCount(res) > 0

(* Phase 3: the priority of a non-answer result.                            *)
NewPrio(res) ==
    IF ~res.r.nil THEN getRcodePriority(res.r.Rcode)
    ELSE IF Len(res.raw) > 0 THEN getRcodePriority(GetHeaderInfo(res.raw).Rcode)
    ELSE 1

(* History: a result that is error-free NOERROR with at least one answer,   *)
(* read from the parsed message or else from the raw header.                *)
HasAnswers(res) ==
    /\ res.err = "nil"
    /\ IF ~res.r.nil THEN res.r.Rcode = RcodeSuccess /\ res.r.Answer # << >>
       ELSE Len(res.raw) >= 12 /\ res.raw[4] % 16 = RcodeSuccess /\ Uint16(res.raw, 6) > 0

RaceInit ==
    /\ upstreams \in 0..MaxUpstreams
    /\ rpc = "start"
    /\ task = [u \in 1..MaxUpstreams |-> [st |-> "idle", res |-> NoResult]]
    /\ chanC = << >>
    /\ chanClosed = FALSE
    /\ taskCtxDone = FALSE
    /\ ctxDone = FALSE
    /\ errMsgs = 0
    /\ bestFallbackRes = NilMsg
    /\ bestFallbackRaw = NilRaw
    /\ bestPrio = -1
    /\ ret = NoResult
    /\ received = {}
    /\ answered = FALSE

(* Lines 46-75: no upstream fails at once, one upstream is called directly  *)
(* with the caller's ctx, otherwise one goroutine per upstream is started.  *)
RaceStart ==
    /\ rpc = "start"
    /\ IF upstreams = 0
       THEN /\ rpc' = "done"
            /\ ret' = Result(NilMsg, NilRaw, "ErrAllFailed")
            /\ task' = task
       ELSE IF upstreams = 1
       THEN /\ rpc' = "single"
            /\ ret' = ret
            /\ task' = task
       ELSE /\ rpc' = "loop"
            /\ ret' = ret
            /\ task' = [u \in 1..MaxUpstreams |->
                          IF u <= upstreams THEN [st |-> "running", res |-> NoResult]
                          ELSE task[u]]
    /\ UNCHANGED <<upstreams, chanC, chanClosed, taskCtxDone, ctxDone, errMsgs,
                   bestFallbackRes, bestFallbackRaw, bestPrio, received, answered>>
    /\ UNCHANGED notRace

(* Line 53: return upstreams[0].ExchangeContext(ctx, q).                    *)
SingleReturn ==
    /\ rpc = "single"
    /\ \E res \in UpstreamResults :
          /\ res.err = "canceled" => ctxDone
          /\ ret' = res
    /\ rpc' = "done"
    /\ UNCHANGED <<upstreams, task, chanC, chanClosed, taskCtxDone, ctxDone, errMsgs,
                   bestFallbackRes, bestFallbackRaw, bestPrio, received, answered>>
    /\ UNCHANGED notRace

(* Line 68: u.ExchangeContext(taskCtx, qCopy) returns.  context.Canceled    *)
(* comes back only from a cancelled taskCtx.                                *)
TaskReturn(u) ==
    /\ task[u].st = "running"
    /\ \E res \in UpstreamResults :
          /\ res.err = "canceled" => taskCtxDone
          /\ task' = [task EXCEPT ![u] = [st |-> "returned", res |-> res]]
          /\ answered' = (answered \/ HasAnswers(res))
    /\ UNCHANGED <<upstreams, rpc, chanC, chanClosed, taskCtxDone, ctxDone, errMsgs,
                   bestFallbackRes, bestFallbackRaw, bestPrio, ret, received>>
    /\ UNCHANGED notRace

(* Lines 69-70: the send case of the select.  c has room for every task.    *)
TaskSend(u) ==
    /\ task[u].st = "returned"
    /\ Len(chanC) < upstreams
    /\ chanC' = Append(chanC, task[u].res)
    /\ task' = [task EXCEPT ![u] = [st |-> "exited", res |-> NoResult]]
    /\ UNCHANGED <<upstreams, rpc, chanClosed, taskCtxDone, ctxDone, errMsgs,
                   bestFallbackRes, bestFallbackRaw, bestPrio, ret, received, answered>>
    /\ UNCHANGED notRace

(* Lines 71-72: the <-taskCtx.Done() case of the select.                    *)
TaskAbort(u) ==
    /\ task[u].st = "returned"
    /\ taskCtxDone
    /\ task' = [task EXCEPT ![u] = [st |-> "exited", res |-> NoResult]]
    /\ UNCHANGED <<upstreams, rpc, chanC, chanClosed, taskCtxDone, ctxDone, errMsgs,
                   bestFallbackRes, bestFallbackRaw, bestPrio, ret, received, answered>>
    /\ UNCHANGED notRace

(* Lines 77-80: wg.Wait(); close(c).                                        *)
CloseChan ==
    /\ upstreams >= 2
    /\ rpc # "start"
    /\ ~chanClosed
    /\ \A u \in 1..upstreams : task[u].st = "exited"
    /\ chanClosed' = TRUE
    /\ UNCHANGED <<upstreams, rpc, task, chanC, taskCtxDone, ctxDone, errMsgs,
                   bestFallbackRes, bestFallbackRaw, bestPrio, ret, received, answered>>
    /\ UNCHANGED notRace

(* cancel() of context.WithCancel (lines 56-57, 113): taskCtx is done       *)
(* after the call.  The second definition; the first leaves taskCtx as it   *)
(* is.                                                                      *)
AfterCancelNoop(done) == done

AfterCancel(done) == TRUE

(* Lines 87-139: one iteration of `for res := range c`.                     *)
MainRecv ==
    /\ rpc = "loop"
    /\ chanC # << >>
    /\ LET res == Head(chanC) IN
       /\ chanC' = Tail(chanC)
       /\ received' = received \cup {res}
       /\ IF res.err # "nil"
          THEN \* Phase 1: canceled is only logged, other errors are collected
               /\ errMsgs' = IF res.err = "canceled" THEN errMsgs ELSE errMsgs + 1
               /\ UNCHANGED <<rpc, ret, taskCtxDone, bestFallbackRes, bestFallbackRaw, bestPrio>>
          ELSE IF IsPerfect(res)
          THEN \* Phase 2: cancel(); return res.r, res.raw, nil
               /\ rpc' = "done"
               /\ ret' = Result(res.r, res.raw, "nil")
               /\ taskCtxDone' = AfterCancel(taskCtxDone)
               /\ UNCHANGED <<errMsgs, bestFallbackRes, bestFallbackRaw, bestPrio>>
          ELSE \* Phase 3
               /\ IF (bestFallbackRaw = NilRaw /\ bestFallbackRes.nil) \/ NewPrio(res) > bestPrio
                  THEN /\ bestFallbackRes' = res.r
                       /\ bestFallbackRaw' = res.raw
                       /\ bestPrio' = NewPrio(res)
                  ELSE UNCHANGED <<bestFallbackRes, bestFallbackRaw, bestPrio>>
               /\ UNCHANGED <<rpc, ret, taskCtxDone, errMsgs>>
    /\ UNCHANGED <<upstreams, task, chanClosed, ctxDone, answered>>
    /\ UNCHANGED notRace

(* Lines 141-161: c is closed and drained.  The deferred cancel() runs.     *)
MainDrained ==
    /\ rpc = "loop"
    /\ chanC = << >>
    /\ chanClosed
    /\ ret' = IF ~bestFallbackRes.nil
              THEN Result(bestFallbackRes, bestFallbackRaw, "nil")
              ELSE IF ctxDone
              THEN Result(NilMsg, NilRaw, "ctx")
              ELSE Result(NilMsg, NilRaw, "ErrAllFailed")
    /\ rpc' = "done"
    /\ taskCtxDone' = AfterCancel(taskCtxDone)
    /\ UNCHANGED <<upstreams, task, chanC, chanClosed, ctxDone, errMsgs,
                   bestFallbackRes, bestFallbackRaw, bestPrio, received, answered>>
    /\ UNCHANGED notRace

(* The caller cancels ctx (or its deadline passes) during the call; taskCtx *)
(* is derived from it (line 56).                                            *)
CallerCancel ==
    /\ rpc \in {"single", "loop"}
    /\ ~ctxDone
    /\ ctxDone' = TRUE
    /\ taskCtxDone' = TRUE
    /\ UNCHANGED <<upstreams, rpc, task, chanC, chanClosed, errMsgs,
                   bestFallbackRes, bestFallbackRaw, bestPrio, ret, received, answered>>
    /\ UNCHANGED notRace

RaceNext ==
    \/ RaceStart
    \/ SingleReturn
    \/ \E u \in 1..MaxUpstreams : TaskReturn(u)
    \/ \E u \in 1..MaxUpstreams : TaskSend(u)
    \/ \E u \in 1..MaxUpstreams : TaskAbort(u)
    \/ CloseChan
    \/ MainRecv
    \/ MainDrained
    \/ CallerCancel

----------------------------------------------------------------------------
(***************************************************************************)
(* Query context (pkg/query_context/context.go), entry handler             *)
(* (pkg/server/dns_handler) and listeners (pkg/server).                    *)
(***************************************************************************)
ProtocolUDP == "udp"
ProtocolTCP == "tcp"
ProtocolQUIC == "quic"
ProtocolHTTPS == "https"

Protocols == {ProtocolUDP, ProtocolTCP, ProtocolQUIC, ProtocolHTTPS}

(* query_context.NewContext: no response of either kind yet.                *)
NewContext == [r |-> NilMsg, rawR |-> NilRaw, rawRReleaseFunc |-> FALSE]

(* Context.SetResponse (context.go:135-137).                                *)
SetResponse(ctx, r) == [ctx EXCEPT !.r = r]

(* Context.SetRawResponse (context.go:141-144).                             *)
SetRawResponse(ctx, raw) == [ctx EXCEPT !.rawR = raw, !.rawRReleaseFunc = TRUE]

(* Context.ReleaseRawR (context.go:153-159): the context after the call and *)
(* the number of times the release func ran.                                *)
ReleaseRawR(ctx) ==
    IF ctx.rawRReleaseFunc
    THEN [ctx |-> [ctx EXCEPT !.rawR = NilRaw, !.rawRReleaseFunc = FALSE], calls |-> 1]
    ELSE [ctx |-> ctx, calls |-> 0]

(* strings.ToLower on ASCII codes.                                          *)
ToLower(name) == [i \in 1..Len(name) |-> IF name[i] >= 65 /\ name[i] <= 90 THEN name[i] + 32 ELSE name[i]]

(* dns.Msg.SetReply: a reply to req with its id, opcode, RD and question.   *)
SetReply(q) ==
    [Msg(q.Id, TRUE, RcodeSuccess,
         IF Len(q.Question) > 0 THEN <<q.Question[1]>> ELSE << >>, << >>, << >>, << >>)
     EXCEPT !.Opcode = q.Opcode,
            !.RecursionDesired = IF q.Opcode = OpcodeQuery THEN q.RecursionDesired ELSE FALSE]

WithRA(r) == IF opts.RecursionAvailable THEN [r EXCEPT !.RecursionAvailable = TRUE] ELSE r

(* responseRefused / responseNXDomain (entry_handler.go:197-215).           *)
responseRefused(q) == WithRA([SetReply(q) EXCEPT !.Rcode = RcodeRefused])

responseNXDomain(q) == WithRA([SetReply(q) EXCEPT !.Rcode = RcodeNameError])

(* responseFormErr of the handler with ServeDNSRaw.                         *)
responseFormErr(q) == WithRA([SetReply(q) EXCEPT !.Rcode = RcodeFormatError])

(* The RFC 8482 reply (entry_handler.go:88-106).                            *)
responseHINFO(q) ==
    WithRA([SetReply(q) EXCEPT !.Answer = <<RR(q.Question[1].Name, TypeHINFO, 8482, 27)>>])

(* The loop of entry_handler.go:126-133 over name[0 .. len(name)-2].        *)
HasDot(name) == \E i \in 1..(Len(name) - 1) : name[i] = ChDot

HasUpper(name) == \E i \in 1..(Len(name) - 1) : name[i] >= 65 /\ name[i] <= 90

HeaderFlagsSet(q) ==
    \/ q.Response \/ q.Authoritative \/ q.Truncated \/ q.RecursionAvailable \/ q.Zero
    \/ Len(q.Answer) # 0 \/ Len(q.Ns) # 0

(* Sections 2-5 of EntryHandler.ServeDNS (entry_handler.go:73-155): either  *)
(* a reply returned at once, or the (possibly lowercased) query to run.     *)
Gate(q) ==
    IF Len(q.Question) # 1 THEN [pass |-> FALSE, reply |-> responseRefused(q), req |-> q]
    ELSE IF q.Opcode # OpcodeQuery THEN [pass |-> FALSE, reply |-> responseRefused(q), req |-> q]
    ELSE LET q0 == q.Question[1]
             lowered == IF HasUpper(q0.Name)
                        THEN [q EXCEPT !.Question[1].Name = ToLower(q0.Name)]
                        ELSE q
         IN
         IF q0.Qtype = TypeANY THEN [pass |-> FALSE, reply |-> responseHINFO(q), req |-> q]
         ELSE IF \/ (opts.BlockAAAA /\ q0.Qtype = TypeAAAA)
                 \/ (opts.BlockPTR /\ q0.Qtype = TypePTR)
                 \/ (opts.BlockHTTPS /\ q0.Qtype = TypeHTTPS)
         THEN [pass |-> FALSE, reply |-> WithRA(SetReply(q)), req |-> q]
         ELSE IF opts.BlockNoDot /\ ~HasDot(q0.Name)
         THEN [pass |-> FALSE, reply |-> responseNXDomain(q), req |-> q]
         ELSE IF q0.Qclass # ClassINET
         THEN [pass |-> FALSE, reply |-> responseRefused(lowered), req |-> lowered]
         ELSE IF HeaderFlagsSet(q)
         THEN [pass |-> FALSE, reply |-> responseRefused(lowered), req |-> lowered]
         ELSE [pass |-> TRUE, reply |-> NilMsg, req |-> lowered]

(* preRejectValidChar (part_011:385-402): '-', '.', digits, letters, '_'.    *)
preRejectValidChar(c) ==
    \/ c = 45 \/ c = 46 \/ c = 95
    \/ (c >= 48 /\ c <= 57) \/ (c >= 65 /\ c <= 90) \/ (c >= 97 /\ c <= 122)

(* The loop of part_011:294-303 over name[0 .. len(name)-2].                *)
AllValidChars(name) == \A i \in 1..(Len(name) - 1) : preRejectValidChar(name[i])

(* Sections 2-5 of the ServeDNS with the character table                    *)
(* (part_011:238-323): the qtype blocks and the dot rule are unconditional, *)
(* the name is always lowercased.                                           *)
GateCharTable(q) ==
    IF Len(q.Question) # 1 THEN [pass |-> FALSE, reply |-> responseRefused(q), req |-> q]
    ELSE IF q.Opcode # OpcodeQuery THEN [pass |-> FALSE, reply |-> responseRefused(q), req |-> q]
    ELSE LET q0 == q.Question[1]
             lowered == [q EXCEPT !.Question[1].Name = ToLower(q0.Name)]
         IN
         IF q0.Qtype = TypeANY THEN [pass |-> FALSE, reply |-> responseHINFO(q), req |-> q]
         ELSE IF q0.Qtype = TypeAAAA \/ q0.Qtype = TypePTR \/ q0.Qtype = TypeHTTPS
         THEN [pass |-> FALSE, reply |-> WithRA(SetReply(q)), req |-> q]
         ELSE IF ~AllValidChars(q0.Name) \/ ~HasDot(q0.Name)
         THEN [pass |-> FALSE, reply |-> responseNXDomain(q), req |-> q]
         ELSE IF q0.Qclass # ClassINET
         THEN [pass |-> FALSE, reply |-> responseRefused(lowered), req |-> lowered]
         ELSE IF HeaderFlagsSet(q)
         THEN [pass |-> FALSE, reply |-> responseRefused(lowered), req |-> lowered]
         ELSE [pass |-> TRUE, reply |-> NilMsg, req |-> lowered]

(* The validation of the ServeDNS that calls ServeDNSRaw: a query needs a   *)
(* question, and dns.IsDomainName accepts every name Unpack produced from   *)
(* labels of legal length.                                                  *)
GateRaw(q) ==
    IF Len(q.Question) = 0 THEN [pass |-> FALSE, reply |-> responseFormErr(q), req |-> q]
    ELSE [pass |-> TRUE, reply |-> NilMsg, req |-> q]

(* The queries a listener can hand over: what dns.Msg.Unpack produced.      *)
QueryNames == {NameAB, <<ChUpperA, ChDot, ChLowerB, ChDot>>, <<ChLowerA, ChLowerB, ChDot>>,
               <<ChLowerA, ChBang, ChDot, ChLowerB, ChDot>>}

QueryIds == {0, 4660}

HeaderFaults == {"none", "Response", "Authoritative", "Truncated", "RecursionAvailable",
                 "Zero", "Answer", "Ns"}

Query(id, n, opcode, name, qtype, qclass, fault) ==
    [Msg(id, fault = "Response", RcodeSuccess,
         [i \in 1..n |-> Question(name, qtype, qclass)],
         IF fault = "Answer" THEN <<RR(name, TypeA, 60, 4)>> ELSE << >>,
         IF fault = "Ns" THEN <<RR(name, TypeA, 60, 4)>> ELSE << >>,
         << >>)
     EXCEPT !.Opcode = opcode,
            !.Authoritative = (fault = "Authoritative"),
            !.Truncated = (fault = "Truncated"),
            !.RecursionAvailable = (fault = "RecursionAvailable"),
            !.Zero = (fault = "Zero")]

Queries ==
    {Query(id, n, opcode, name, qtype, qclass, fault) :
        id \in QueryIds, n \in 0..2, opcode \in {OpcodeQuery, OpcodeStatus},
        name \in QueryNames, qtype \in {TypeA, TypeAAAA, TypeANY},
        qclass \in {ClassINET, ClassCHAOS}, fault \in HeaderFaults}

HandlerOpts ==
    {[RecursionAvailable |-> ra, BlockAAAA |-> b, BlockPTR |-> b, BlockHTTPS |-> b, BlockNoDot |-> b] :
        ra \in BOOLEAN, b \in BOOLEAN}

(* What the plugin graph (h.opts.Entry.Exec) can leave behind for query q:  *)
(* the cache plugin's zero-unpack hit (raw bytes with the query's id and a  *)
(* release hook, cache.go:186-243), the same with a placeholder reply       *)
(* (cache.go:397-404), a parsed reply of an upstream (which may carry       *)
(* another id), nothing, and an error with or without a parsed reply.       *)
CachedAnswer(q) ==
    Msg(q.Id, TRUE, RcodeSuccess, IF Len(q.Question) > 0 THEN <<q.Question[1]>> ELSE << >>,
        <<RR(NameAB, TypeA, 240, 4)>>, << >>, << >>)

GraphOutcomes(q) ==
    {[raw |-> Pack(CachedAnswer(q)), r |-> NilMsg, err |-> "nil"],
     [raw |-> Pack(CachedAnswer(q)), r |-> SetReply(q), err |-> "nil"],
     [raw |-> NilRaw, r |-> CachedAnswer(q), err |-> "nil"],
     [raw |-> NilRaw, r |-> [CachedAnswer(q) EXCEPT !.Id = 9, !.Rcode = RcodeNameError, !.Answer = << >>],
      err |-> "nil"],
     [raw |-> NilRaw, r |-> NilMsg, err |-> "nil"],
     [raw |-> NilRaw, r |-> NilMsg, err |-> "err"],
     [raw |-> NilRaw, r |-> [CachedAnswer(q) EXCEPT !.Id = 9], err |-> "err"]}

(* The query context after Entry.Exec with outcome o.                       *)
AfterExec(ctx, o) ==
    LET c1 == IF o.raw # NilRaw THEN SetRawResponse(ctx, o.raw) ELSE ctx
    IN IF ~o.r.nil THEN SetResponse(c1, o.r) ELSE c1

ServeInit ==
    /\ opts \in HandlerOpts
    /\ hasRawHandler \in BOOLEAN
    /\ hasCharTable \in BOOLEAN
    /\ ~(hasRawHandler /\ hasCharTable)
    /\ spc = "idle"
    /\ protocol = "none"
    /\ req = NilMsg
    /\ lqCtx = NewContext
    /\ hqCtx = NewContext
    /\ handlerErr = "nil"
    /\ handlerR = NilMsg
    /\ written = << >>
    /\ released = 0
    /\ connClosed = FALSE
    /\ graphRan = FALSE
    /\ graphQ = NilMsg
    /\ graphErr = "nil"
    /\ graphRaw = NilRaw

(* ServeQUIC's test of the id of a query read from a stream                 *)
(* (part_007:100-104): the second definition; the first never rejects.      *)
QuicIdRejectedNever(p, q) == FALSE

QuicIdRejected(p, q) == p = ProtocolQUIC /\ q.Id # 0

(* A listener has read and unpacked a query.  ServeQUIC closes the          *)
(* connection when the id is not 0 and never calls the handler.  The UDP    *)
(* and TCP listeners create a query context (server.go:153-155,             *)
(* tcp.go:139).                                                             *)
ListenerRecv ==
    /\ spc = "idle"
    /\ \E p \in Protocols, q \in Queries :
          /\ protocol' = p
          /\ req' = q
          /\ IF QuicIdRejected(p, q)
             THEN spc' = "done" /\ connClosed' = TRUE
             ELSE spc' = "dispatch" /\ connClosed' = FALSE
    /\ lqCtx' = NewContext
    /\ hqCtx' = NewContext
    /\ handlerErr' = "nil"
    /\ handlerR' = NilMsg
    /\ written' = << >>
    /\ released' = 0
    /\ graphRan' = FALSE
    /\ graphQ' = NilMsg
    /\ graphErr' = "nil"
    /\ graphRaw' = NilRaw
    /\ UNCHANGED <<opts, hasRawHandler, hasCharTable>>
    /\ UNCHANGED notServe

UsesRawHandler == protocol \in {ProtocolUDP, ProtocolTCP} /\ hasRawHandler

(* EntryHandler.ServeDNSRaw: Entry.Exec on the listener's query context.    *)
ServeDNSRaw ==
    /\ spc = "dispatch"
    /\ UsesRawHandler
    /\ \E o \in GraphOutcomes(req) :
          /\ lqCtx' = AfterExec(lqCtx, o)
          /\ handlerErr' = o.err
          /\ graphErr' = o.err
          /\ graphRaw' = o.raw
    /\ graphRan' = TRUE
    /\ graphQ' = req
    /\ spc' = "write"
    /\ UNCHANGED <<reqVars, hqCtx, handlerR, written, released, connClosed>>
    /\ UNCHANGED notServe

(* EntryHandler.ServeDNS up to the call of Entry.Exec: the gatekeeper of    *)
(* entry_handler.go, the one with the character table, or the validation   *)
(* of the handler with ServeDNSRaw.                                         *)
ServeDNSGate ==
    /\ spc = "dispatch"
    /\ ~UsesRawHandler
    /\ LET g == IF hasRawHandler THEN GateRaw(req)
                ELSE IF hasCharTable THEN GateCharTable(req) ELSE Gate(req) IN
       /\ req' = g.req
       /\ IF g.pass
          THEN /\ spc' = "graph"
               /\ UNCHANGED <<handlerR, lqCtx>>
          ELSE /\ spc' = "write"
               /\ handlerR' = g.reply
               /\ lqCtx' = IF protocol \in {ProtocolUDP, ProtocolTCP}
                           THEN SetResponse(lqCtx, g.reply) ELSE lqCtx
    /\ UNCHANGED <<opts, hasRawHandler, hasCharTable, protocol, hqCtx, handlerErr, written, released,
                   connClosed, graphRan, graphQ, graphErr, graphRaw>>
    /\ UNCHANGED notServe

(* The reply for a context without one: SERVFAIL on an error, else REFUSED. *)
responseEmpty(err, q) ==
    [SetReply(q) EXCEPT !.Rcode = IF err # "nil" THEN RcodeServerFailure ELSE RcodeRefused]

(* entry_handler.go:173-194: the reply ServeDNS returns for the context     *)
(* the graph left and the error it returned.  Only queryCtx.R() is read.    *)
(* The second definition; the first leaves out respMsg.Id = origID.         *)
FinalizeKeepsId(ctx, err, q) ==
    LET respMsg == IF ctx.r.nil THEN responseEmpty(err, q) ELSE ctx.r
    IN [r |-> WithRA(respMsg), ctx |-> ctx, calls |-> 0]

Finalize(ctx, err, q) ==
    LET respMsg == IF ctx.r.nil THEN responseEmpty(err, q) ELSE ctx.r
    IN [r |-> [WithRA(respMsg) EXCEPT !.Id = q.Id], ctx |-> ctx, calls |-> 0]

(* The same in the handler with ServeDNSRaw: a raw response without a       *)
(* parsed one is unpacked, given the query's id, and released.              *)
FinalizeRaw(ctx, err, q) ==
    LET fallback == ctx.r.nil /\ ctx.rawR # NilRaw
        u == Unpack(ctx.rawR)
        respMsg == IF ~ctx.r.nil THEN ctx.r
                   ELSE IF fallback /\ u.ok THEN [u.msg EXCEPT !.Id = q.Id]
                   ELSE responseEmpty(err, q)
    IN [r |-> [WithRA(respMsg) EXCEPT !.Id = q.Id],
        ctx |-> IF fallback THEN ReleaseRawR(ctx).ctx ELSE ctx,
        calls |-> IF fallback THEN ReleaseRawR(ctx).calls ELSE 0]

(* EntryHandler.ServeDNS from Entry.Exec to its return (lines 158-194), and *)
(* the listener's SetResponse of the reply (server.go:163-167).             *)
ServeDNSExec ==
    /\ spc = "graph"
    /\ \E o \in GraphOutcomes(req) :
          LET ctx == AfterExec(NewContext, o)
              f == IF hasRawHandler THEN FinalizeRaw(ctx, o.err, req)
                   ELSE Finalize(ctx, o.err, req)
          IN /\ hqCtx' = f.ctx
             /\ released' = released + f.calls
             /\ graphErr' = o.err
             /\ graphRaw' = o.raw
             /\ handlerR' = f.r
             /\ lqCtx' = IF protocol \in {ProtocolUDP, ProtocolTCP}
                         THEN SetResponse(lqCtx, f.r) ELSE lqCtx
    /\ graphRan' = TRUE
    /\ graphQ' = req
    /\ handlerErr' = "nil"
    /\ spc' = "write"
    /\ UNCHANGED <<reqVars, written, connClosed>>
    /\ UNCHANGED notServe

(* getUDPSize (server.go:206-215): the queries here carry no OPT record.    *)
getUDPSize(q) == MinMsgSize

(* dns.Msg.Truncate: a reply that fits is left alone.                       *)
Truncate(r, size) ==
    IF Len(Pack(r)) <= size THEN r
    ELSE [r EXCEPT !.Truncated = TRUE, !.Answer = << >>, !.Ns = << >>, !.Extra = << >>]

(* server.go:170-201 and tcp.go:154-193: nothing on a handler error, the    *)
(* raw bytes when there are any (then ReleaseRawR), else the packed reply   *)
(* with the query's id.                                                     *)
ListenerWriteDatagram ==
    /\ spc = "write"
    /\ protocol \in {ProtocolUDP, ProtocolTCP}
    /\ IF handlerErr # "nil"
       THEN UNCHANGED <<written, lqCtx, released>>
       ELSE IF lqCtx.rawR # NilRaw
       THEN /\ written' = lqCtx.rawR
            /\ lqCtx' = ReleaseRawR(lqCtx).ctx
            /\ released' = released + ReleaseRawR(lqCtx).calls
       ELSE IF ~lqCtx.r.nil
       THEN LET r == [lqCtx.r EXCEPT !.Id = req.Id]
            IN /\ written' = Pack(IF protocol = ProtocolUDP THEN Truncate(r, getUDPSize(req)) ELSE r)
               /\ UNCHANGED <<lqCtx, released>>
       ELSE UNCHANGED <<written, lqCtx, released>>
    /\ spc' = "done"
    /\ UNCHANGED <<reqVars, hqCtx, handlerErr, handlerR, connClosed,
                   graphRan, graphQ, graphErr, graphRaw>>
    /\ UNCHANGED notServe

(* ServeQUIC and the HTTP handler (handler.go:217-238): pack and write the  *)
(* reply ServeDNS returned.                                                 *)
ListenerWriteStream ==
    /\ spc = "write"
    /\ protocol \in {ProtocolQUIC, ProtocolHTTPS}
    /\ written' = Pack(handlerR)
    /\ spc' = "done"
    /\ UNCHANGED <<reqVars, lqCtx, hqCtx, handlerErr, handlerR, released, connClosed,
                   graphRan, graphQ, graphErr, graphRaw>>
    /\ UNCHANGED notServe

(* The listener goes on to the next query; the contexts of the finished one *)
(* are garbage.                                                             *)
ListenerNext ==
    /\ spc = "done"
    /\ spc' = "idle"
    /\ protocol' = "none"
    /\ req' = NilMsg
    /\ lqCtx' = NewContext
    /\ hqCtx' = NewContext
    /\ handlerErr' = "nil"
    /\ handlerR' = NilMsg
    /\ written' = << >>
    /\ released' = 0
    /\ connClosed' = FALSE
    /\ graphRan' = FALSE
    /\ graphQ' = NilMsg
    /\ graphErr' = "nil"
    /\ graphRaw' = NilRaw
    /\ UNCHANGED <<opts, hasRawHandler, hasCharTable>>
    /\ UNCHANGED notServe

ServeNext ==
    \/ ListenerRecv
    \/ ServeDNSRaw
    \/ ServeDNSGate
    \/ ServeDNSExec
    \/ ListenerWriteDatagram
    \/ ListenerWriteStream
    \/ ListenerNext

----------------------------------------------------------------------------
(***************************************************************************)
(* Cache plugin (plugin/executable/cache/cache.go), its backend MemCache   *)
(* (pkg/cache/mem_cache) and the wire helpers of pkg/dnsutils.             *)
(***************************************************************************)
MaxQueries == 3
MaxNanos == 400
MaxSeconds == 1

NanosPerSecond == 1000000000
TickNanos == 400
MaxTTLOffsets == 8
DefaultLazyReplyTTL == 5
DefaultEmptyTTL == 300
HugeTTL == 1000000000

(* time.Now().Unix() and time.Now().UnixNano() of the wall clock.           *)
Unix == clock \div NanosPerSecond

UnixNano == clock

(* skipName (dnsutils): the offset after the name that starts at offset.    *)
RECURSIVE skipName(_, _)
skipName(wire, offset) ==
    IF offset >= Len(wire) THEN offset
    ELSE LET b == wire[offset + 1] IN
         IF b = 0 THEN offset + 1
         ELSE IF b >= 192 THEN offset + 2
         ELSE skipName(wire, offset + b + 1)

(* offsets[count] = uint16(offset + 4): the TTL follows TYPE and CLASS.  The *)
(* second definition; the first takes the place of RDLENGTH.                *)
TTLFieldOffsetAtRdlen(offset) == (offset + 8) % 65536

TTLFieldOffset(offset) == (offset + 4) % 65536

(* The question loop of ExtractTTLOffsets.                                  *)
RECURSIVE SkipQuestions(_, _, _, _)
SkipQuestions(wire, offset, i, qdcount) ==
    IF i < qdcount /\ offset < Len(wire)
    THEN SkipQuestions(wire, skipName(wire, offset) + 4, i + 1, qdcount)
    ELSE offset

(* The record loop of ExtractTTLOffsets: the TTL offsets gathered so far.   *)
RECURSIVE ScanRRs(_, _, _, _, _)
ScanRRs(wire, offset, i, totalRR, offsets) ==
    IF ~(i < totalRR /\ offset < Len(wire)) THEN offsets
    ELSE LET o == skipName(wire, offset) IN
         IF o + 10 > Len(wire) THEN offsets
         ELSE ScanRRs(wire, o + 10 + Uint16(wire, o + 8), i + 1, totalRR,
                      IF Uint16(wire, o) # TypeOPT /\ Len(offsets) < MaxTTLOffsets
                      THEN Append(offsets, TTLFieldOffset(o)) ELSE offsets)

(* ExtractTTLOffsets: the [8]uint16 array (zero filled) and the count.      *)
ExtractTTLOffsets(wire) ==
    LET found == IF Len(wire) < 12 THEN << >>
                 ELSE ScanRRs(wire,
                              SkipQuestions(wire, 12, 0, Uint16(wire, 4)),
                              0,
                              Uint16(wire, 6) + Uint16(wire, 8) + Uint16(wire, 10),
                              << >>)
    IN [offsets |-> found \o Zeros(MaxTTLOffsets - Len(found)), count |-> Len(found)]

RECURSIVE SeqMin(_)
SeqMin(xs) ==
    IF Len(xs) = 1 THEN xs[1]
    ELSE LET m == SeqMin(Tail(xs)) IN IF xs[1] < m THEN xs[1] ELSE m

IsNotOPT(rr) == rr.Rrtype # TypeOPT

(* dnsutils.GetMinimalTTL: 0 when the message has no record but OPT.        *)
GetMinimalTTL(m) ==
    LET rrs == SelectSeq(m.Answer \o m.Ns \o m.Extra, IsNotOPT)
    IN IF rrs = << >> THEN 0 ELSE SeqMin([i \in 1..Len(rrs) |-> rrs[i].Ttl])

(* dnsutils.GetMsgKey: name, type and class of the first question; the      *)
(* empty key for a query without one.                                       *)
GetMsgKey(q) ==
    IF Len(q.Question) = 0 THEN << >>
    ELSE <<q.Question[1].Name, q.Question[1].Qtype, q.Question[1].Qclass>>

(* binary.BigEndian.PutUint16 / PutUint32 into buf at a 0-based offset.     *)
PutUint16At(buf, off, v) ==
    [i \in 1..Len(buf) |-> IF i > off /\ i <= off + 2 THEN PutUint16(v)[i - off] ELSE buf[i]]

PutUint32At(buf, off, v) ==
    [i \in 1..Len(buf) |-> IF i > off /\ i <= off + 4 THEN PutUint32(v)[i - off] ELSE buf[i]]

(* The lazy branch of Exec (cache.go:193-200): the second definition; the   *)
(* first leaves out the default of 5.                                       *)
LazyReplyTTLNoDefault(a) == a.LazyCacheReplyTTL

LazyReplyTTL(a) == IF a.LazyCacheReplyTTL = 0 THEN DefaultLazyReplyTTL ELSE a.LazyCacheReplyTTL

RECURSIVE PatchLazy(_, _, _, _)
PatchLazy(buf, offsets, n, lTTL) ==
    IF n = 0 THEN buf
    ELSE PutUint32At(PatchLazy(buf, offsets, n - 1, lTTL), offsets[n], lTTL)

(* The fresh branch of Exec (cache.go:206-216).                             *)
SubtractTTL(oldTTL, elapsed) == IF oldTTL > elapsed THEN oldTTL - elapsed ELSE 1

RECURSIVE PatchFresh(_, _, _, _)
PatchFresh(buf, offsets, n, elapsed) ==
    IF n = 0 THEN buf
    ELSE LET b == PatchFresh(buf, offsets, n - 1, elapsed)
         IN PutUint32At(b, offsets[n], SubtractTTL(Uint32(b, offsets[n]), elapsed))

(* Step 3 of Exec (cache.go:219-236): cut a UDP reply to the size the query *)
(* allows and set TC.  The queries here carry no OPT record.                *)
TruncateUDP(respRaw, isUDP) ==
    IF isUDP /\ Len(respRaw) > MinMsgSize
    THEN LET cut == SubSeq(respRaw, 1, MinMsgSize)
         IN [cut EXCEPT ![3] = IF (cut[3] \div 2) % 2 = 0 THEN cut[3] + 2 ELSE cut[3]]
    ELSE respRaw

TypeSOA == 6

QueryIndexes == 1..MaxQueries

NameBA == <<ChLowerB, ChDot, ChLowerA, ChDot>>

CacheNames == {NameAB, NameBA}

(* The query of client i for name; clients use two ids in turn.             *)
CacheQuery(i, name) == Query(4660 + (i % 2), 1, OpcodeQuery, name, TypeA, ClassINET, "none")

(* The queries client i can send: all but the last ask for the same name,   *)
(* the last may ask for another one or send no question at all.             *)
CacheQueries(i) ==
    IF i < MaxQueries THEN {CacheQuery(i, NameAB)}
    ELSE {CacheQuery(i, name) : name \in CacheNames}
         \cup {[CacheQuery(i, NameAB) EXCEPT !.Question = << >>]}

CacheKeys == {GetMsgKey(CacheQuery(1, name)) : name \in CacheNames}

CacheArgs ==
    {[LazyCacheTTL |-> 300, LazyCacheReplyTTL |-> 0],
     [LazyCacheTTL |-> 300, LazyCacheReplyTTL |-> 30]}

(* What the rest of the chain (ExecChainNode) can produce for query q: an   *)
(* answer with an OPT record, a reply with more records than the offset     *)
(* table holds spread over the three sections, an empty reply whose SOA has *)
(* TTL 0, replies tryStore rejects, no reply, and an error.                 *)
QName(q) == IF Len(q.Question) > 0 THEN q.Question[1].Name ELSE <<ChDot>>

ReplyAnswer(q) ==
    [SetReply(q) EXCEPT !.Answer = <<RR(QName(q), TypeA, 300, 4)>>,
                        !.Extra = <<RR(<<ChDot>>, TypeOPT, 0, 0)>>,
                        !.Compress = TRUE]

ReplyMany(q) ==
    [SetReply(q) EXCEPT !.Answer = [j \in 1..(MaxTTLOffsets - 1) |->
                                       RR(QName(q), TypeA, HugeTTL + j, 4)],
                        !.Ns = <<RR(QName(q), TypeSOA, HugeTTL, 22)>>,
                        !.Extra = <<RR(<<ChDot>>, TypeOPT, 0, 0),
                                    RR(QName(q), TypeA, HugeTTL + 9, 4)>>]

ReplyNoData(q) ==
    [SetReply(q) EXCEPT !.Ns = <<RR(QName(q), TypeSOA, 0, 22)>>, !.Compress = TRUE]

ChainReplies(q) ==
    {[r |-> ReplyAnswer(q), err |-> "nil"],
     [r |-> ReplyMany(q), err |-> "nil"],
     [r |-> ReplyNoData(q), err |-> "nil"],
     [r |-> [ReplyNoData(q) EXCEPT !.Rcode = RcodeServerFailure], err |-> "nil"],
     [r |-> [ReplyAnswer(q) EXCEPT !.Truncated = TRUE], err |-> "nil"],
     [r |-> [ReplyAnswer(q) EXCEPT !.Answer[1].Ttl = 0], err |-> "nil"],
     [r |-> NilMsg, err |-> "nil"],
     [r |-> NilMsg, err |-> "err"]}

(* *elem of MemCache; NoElem stands for a key the lru does not hold.  The    *)
(* fields r and path are history: the response the element was packed from  *)
(* and the caller of tryStore ("miss": Exec, "lazy": the refresh).          *)
Elem(packet, storedTime, expire, lazyExpire, ttlOffsets, ttlCount, r, path) ==
    [present |-> TRUE, packet |-> packet, storedTime |-> storedTime, expire |-> expire,
     lazyExpire |-> lazyExpire, ttlOffsets |-> ttlOffsets, ttlCount |-> ttlCount,
     r |-> r, path |-> path]

NoElem == [Elem(<< >>, 0, 0, 0, Zeros(MaxTTLOffsets), 0, NilMsg, "none") EXCEPT !.present = FALSE]

(* MemCache.Get (mem_cache_test.go:275-295): the second definition; the     *)
(* first leaves out the test of lazyExpire.                                 *)
MemCacheGetNoLazyLimit(key) ==
    LET e == lru[key]
        miss == [ok |-> FALSE, lazyHit |-> FALSE]
    IN IF closed THEN miss
       ELSE IF ~e.present THEN miss
       ELSE [ok |-> TRUE, lazyHit |-> UnixNano > e.expire]

MemCacheGet(key) ==
    LET e == lru[key]
        miss == [ok |-> FALSE, lazyHit |-> FALSE]
    IN IF closed THEN miss
       ELSE IF ~e.present THEN miss
       ELSE IF UnixNano > e.lazyExpire THEN miss
       ELSE [ok |-> TRUE, lazyHit |-> UnixNano > e.expire]

(* The two early returns of tryStore (cache.go:256-268): the second         *)
(* definition; the first leaves out the return on answers with a minimal    *)
(* TTL of 0.                                                                *)
TryStoreAcceptsZeroTTL(r) ==
    /\ ~((r.Rcode # RcodeSuccess /\ r.Rcode # RcodeNameError) \/ r.Truncated)

TryStoreAccepts(r) ==
    /\ ~((r.Rcode # RcodeSuccess /\ r.Rcode # RcodeNameError) \/ r.Truncated)
    /\ ~(GetMinimalTTL(r) = 0 /\ Len(r.Answer) > 0)

(* The minimal TTL tryStore works with (cache.go:264-270).                  *)
StoreTTL(r) == IF GetMinimalTTL(r) = 0 THEN DefaultEmptyTTL ELSE GetMinimalTTL(r)

(* The element tryStore and MemCache.Store build for r at the current time  *)
(* (cache.go:273-279, mem_cache_test.go:297-314).                           *)
StoredElem(r, path) ==
    LET packed == Pack(r)
        ex == ExtractTTLOffsets(packed)
        now == Unix
        expire == now + StoreTTL(r)
        lazyExpire == expire + args.LazyCacheTTL
    IN Elem(packed, Unix, expire, lazyExpire, ex.offsets, ex.count, r, path)

(* tryStore reaches lru.Add.                                                *)
Stores(res) == res.err = "nil" /\ ~res.r.nil /\ TryStoreAccepts(res.r) /\ ~closed

(* singleflight.Group.DoChan runs fn only when the key has no call in the   *)
(* group's map (the second definition; the first always runs it).           *)
DoChanStartsAlways(key) == TRUE

DoChanStarts(key) == ~sfCalls[key]

NoQuery ==
    [pc |-> "idle", q |-> NilMsg, key |-> << >>, ok |-> FALSE, lazyHit |-> FALSE, e |-> NoElem,
     gen |-> 0, elapsed |-> 0, rawR |-> NilRaw]

CacheInit ==
    /\ args \in CacheArgs
    /\ clock = 0
    /\ closed = FALSE
    /\ lru = [k \in CacheKeys |-> NoElem]
    /\ sfCalls = [k \in CacheKeys |-> FALSE]
    /\ nExec = [k \in CacheKeys |-> 0]
    /\ nDefer = [k \in CacheKeys |-> 0]
    /\ cq = [i \in QueryIndexes |-> NoQuery]
    /\ sfQ = [k \in CacheKeys |-> NilMsg]
    /\ last = NoQuery
    /\ lazyRuns = [k \in CacheKeys |-> 0]
    /\ genStarted = [k \in CacheKeys |-> {}]
    /\ dupRun = [k \in CacheKeys |-> FALSE]

CacheIdle == CacheInit /\ args.LazyCacheReplyTTL = 0

cacheHistory == <<lazyRuns, genStarted, dupRun>>

(* The record of a query whose Exec has returned.                           *)
Returned == [NoQuery EXCEPT !.pc = "returned"]

(* Where Exec goes after backend.Get (cache.go:178, 246): the hit path,     *)
(* which returns without the rest of the chain, or the rest of the chain.   *)
(* The first definition runs the chain on a hit as well.                    *)
AfterGetAlwaysNext(ok) == "next"

AfterGet(ok) == IF ok THEN "hit" ELSE "next"

(* cachePlugin.Exec up to the return of backend.Get (cache.go:170-177),     *)
(* for a new query of client i.  A query without a question has the empty   *)
(* key and goes straight to the rest of the chain.                          *)
ExecGet(i) ==
    /\ last.pc = "idle"
    /\ cq[i].pc = "idle"
    /\ \A j \in 1..(i - 1) : cq[j].pc # "idle"
    /\ \E q \in CacheQueries(i) :
          LET key == GetMsgKey(q) IN
          IF key = << >>
          THEN cq' = [cq EXCEPT ![i] = [NoQuery EXCEPT !.pc = "next", !.q = q]]
          ELSE LET g == MemCacheGet(key) IN
               cq' = [cq EXCEPT ![i] =
                        [NoQuery EXCEPT !.pc = AfterGet(g.ok),
                                        !.q = q, !.key = key,
                                        !.ok = g.ok, !.lazyHit = g.lazyHit,
                                        !.e = IF g.ok THEN lru[key] ELSE NoElem,
                                        !.gen = IF g.lazyHit THEN lazyRuns[key] ELSE 0]]
    /\ UNCHANGED <<args, clock, closed, lru, sfCalls, nExec, nDefer, sfQ, last, cacheHistory>>
    /\ UNCHANGED notCache

(* The hit path of Exec (cache.go:178-243): copy the packet, patch the id   *)
(* and the TTLs, on a lazy hit call doLazyUpdate (cache.go:282-300: DoChan  *)
(* starts the refresh unless one is in flight), truncate for UDP, attach    *)
(* the raw response.                                                        *)
ExecHit(i) ==
    /\ last.pc = "idle"
    /\ cq[i].pc = "hit"
    /\ LET c == cq[i]
           key == c.key
           now == Unix
           withId == PutUint16At(c.e.packet, 0, c.q.Id)
           elapsed == now - c.e.storedTime
           patched == IF c.lazyHit
                      THEN PatchLazy(withId, c.e.ttlOffsets, c.e.ttlCount, LazyReplyTTL(args))
                      ELSE PatchFresh(withId, c.e.ttlOffsets, c.e.ttlCount, elapsed)
           starts == c.lazyHit /\ DoChanStarts(key)
       IN
       /\ cq' = [cq EXCEPT ![i] = Returned]
       /\ last' = [c EXCEPT !.pc = "done", !.elapsed = elapsed,
                            !.rawR = TruncateUDP(patched, TRUE)]
       /\ sfQ' = IF starts THEN [sfQ EXCEPT ![key] = c.q] ELSE sfQ
       /\ sfCalls' = IF starts THEN [sfCalls EXCEPT ![key] = TRUE] ELSE sfCalls
       /\ nExec' = IF starts THEN [nExec EXCEPT ![key] = @ + 1] ELSE nExec
       /\ lazyRuns' = IF starts THEN [lazyRuns EXCEPT ![key] = @ + 1] ELSE lazyRuns
       /\ genStarted' = IF starts THEN [genStarted EXCEPT ![key] = @ \cup {c.gen}] ELSE genStarted
       /\ dupRun' = IF starts /\ c.gen \in genStarted[key]
                    THEN [dupRun EXCEPT ![key] = TRUE] ELSE dupRun
    /\ UNCHANGED <<args, clock, closed, lru, nDefer>>
    /\ UNCHANGED notCache

(* The miss path of Exec (cache.go:246-251): the rest of the chain returns, *)
(* tryStore stores what it accepts, and Exec returns.                       *)
ExecChainReturn(i) ==
    /\ last.pc = "idle"
    /\ cq[i].pc = "next"
    /\ \E res \in ChainReplies(cq[i].q) :
          /\ cq' = [cq EXCEPT ![i] = Returned]
          /\ IF cq[i].key # << >> /\ Stores(res)
             THEN lru' = [lru EXCEPT ![cq[i].key] = StoredElem(res.r, "miss")]
             ELSE UNCHANGED lru
    /\ UNCHANGED <<args, clock, closed, sfCalls, nExec, nDefer, sfQ, last,
                   lazyRuns, genStarted, dupRun>>
    /\ UNCHANGED notCache

(* The refresh goroutine of doLazyUpdate (cache.go:286-298): the chain      *)
(* returns for the copied context of a query that observed the lazy hit,    *)
(* and tryStore stores what it accepts.                                     *)
RefreshChainReturn(key) ==
    /\ last.pc = "idle"
    /\ nExec[key] > 0
    /\ \E res \in ChainReplies(sfQ[key]) :
          IF Stores(res)
          THEN lru' = [lru EXCEPT ![key] = StoredElem(res.r, "lazy")]
          ELSE UNCHANGED lru
    /\ nExec' = [nExec EXCEPT ![key] = @ - 1]
    /\ nDefer' = [nDefer EXCEPT ![key] = @ + 1]
    /\ UNCHANGED <<args, clock, closed, sfCalls, cq, sfQ, last,
                   lazyRuns, genStarted, dupRun>>
    /\ UNCHANGED notCache

(* The deferred lazyUpdateSF.Forget(key) (cache.go:287).                    *)
RefreshForget(key) ==
    /\ last.pc = "idle"
    /\ nDefer[key] > 0
    /\ nDefer' = [nDefer EXCEPT ![key] = @ - 1]
    /\ sfCalls' = [sfCalls EXCEPT ![key] = FALSE]
    /\ UNCHANGED <<args, clock, closed, lru, nExec, cq, sfQ, last, cacheHistory>>
    /\ UNCHANGED notCache

(* Exec has returned from a hit to its caller, which takes the raw reply.   *)
ExecReturn ==
    /\ last.pc = "done"
    /\ last' = NoQuery
    /\ UNCHANGED <<args, clock, closed, lru, sfCalls, nExec, nDefer, cq, sfQ, cacheHistory>>
    /\ UNCHANGED notCache

(* MemCache.startCleaner on a tick (mem_cache_test.go:316-334).             *)
Cleaner ==
    /\ last.pc = "idle"
    /\ ~closed
    /\ lru' = [k \in CacheKeys |->
                 IF lru[k].present /\ lru[k].lazyExpire <= UnixNano THEN NoElem ELSE lru[k]]
    /\ UNCHANGED <<args, clock, closed, sfCalls, nExec, nDefer, cq, sfQ, last, cacheHistory>>
    /\ UNCHANGED notCache

(* MemCache.Close (mem_cache_test.go:268-273).                              *)
Close ==
    /\ last.pc = "idle"
    /\ ~closed
    /\ closed' = TRUE
    /\ UNCHANGED <<args, clock, lru, sfCalls, nExec, nDefer, cq, sfQ, last, cacheHistory>>
    /\ UNCHANGED notCache

(* Time passes: a little within the second, or on to the next second.       *)
TickWithinSecond ==
    /\ last.pc = "idle"
    /\ (clock % NanosPerSecond) + TickNanos <= MaxNanos
    /\ clock' = clock + TickNanos
    /\ UNCHANGED <<args, closed, lru, sfCalls, nExec, nDefer, cq, sfQ, last, cacheHistory>>
    /\ UNCHANGED notCache

TickSecond ==
    /\ last.pc = "idle"
    /\ Unix < MaxSeconds
    /\ clock' = (Unix + 1) * NanosPerSecond
    /\ UNCHANGED <<args, closed, lru, sfCalls, nExec, nDefer, cq, sfQ, last, cacheHistory>>
    /\ UNCHANGED notCache

CacheNext ==
    \/ \E i \in QueryIndexes : ExecGet(i)
    \/ \E i \in QueryIndexes : ExecHit(i)
    \/ \E i \in QueryIndexes : ExecChainReturn(i)
    \/ ExecReturn
    \/ \E key \in CacheKeys : RefreshChainReturn(key)
    \/ \E key \in CacheKeys : RefreshForget(key)
    \/ Cleaner
    \/ Close
    \/ TickWithinSecond
    \/ TickSecond

----------------------------------------------------------------------------
(***************************************************************************)
(* The query context as an object: the calls a plugin or a listener can    *)
(* make on the contexts of one request (pkg/query_context/context.go).     *)
(***************************************************************************)
MaxContexts == 3
MaxReleaseRawR == 3

ContextIndexes == 1..MaxContexts

(* The bytes of the pooled buffer and the replies a plugin may set.         *)
BufBytes == Pack(UpstreamReply(RcodeSuccess, 1))

CtxReplies == {UpstreamReply(RcodeSuccess, 1), UpstreamReply(RcodeNameError, 0)}

(* Context.CopyTo (context.go:179-198) into a new Context: r is deep        *)
(* copied, rawR and rawRReleaseFunc are copied as they are.                 *)
CopyTo(ctx) == [r |-> ctx.r, rawR |-> ctx.rawR, rawRReleaseFunc |-> ctx.rawRReleaseFunc]

CtxInit ==
    /\ cx = [i \in ContextIndexes |-> [live |-> i = 1, ctx |-> NewContext]]
    /\ bufAttached = FALSE
    /\ releaseFuncCalls = 0
    /\ releaseRawRCalls = 0

(* qCtx.SetRawResponse(respRaw, func() { buf.Release() }) for the buffer.   *)
CtxSetRawResponse(i) ==
    /\ cx[i].live
    /\ ~bufAttached
    /\ cx' = [cx EXCEPT ![i].ctx = SetRawResponse(@, BufBytes)]
    /\ bufAttached' = TRUE
    /\ UNCHANGED <<releaseFuncCalls, releaseRawRCalls>>
    /\ UNCHANGED notCtx

CtxSetResponse(i) ==
    /\ cx[i].live
    /\ \E r \in CtxReplies : cx' = [cx EXCEPT ![i].ctx = SetResponse(@, r)]
    /\ UNCHANGED <<bufAttached, releaseFuncCalls, releaseRawRCalls>>
    /\ UNCHANGED notCtx

(* Context.Copy (context.go:173-177): context j is the new Context.         *)
CtxCopy(i, j) ==
    /\ cx[i].live
    /\ ~cx[j].live
    /\ \A k \in 1..(j - 1) : cx[k].live
    /\ cx' = [cx EXCEPT ![j] = [live |-> TRUE, ctx |-> CopyTo(cx[i].ctx)]]
    /\ UNCHANGED <<bufAttached, releaseFuncCalls, releaseRawRCalls>>
    /\ UNCHANGED notCtx

(* Context.ReleaseRawR (context.go:153-159) on context i.                   *)
CtxReleaseRawR(i) ==
    /\ cx[i].live
    /\ releaseRawRCalls < MaxReleaseRawR
    /\ cx' = [cx EXCEPT ![i].ctx = ReleaseRawR(@).ctx]
    /\ releaseFuncCalls' = releaseFuncCalls + ReleaseRawR(cx[i].ctx).calls
    /\ releaseRawRCalls' = releaseRawRCalls + 1
    /\ UNCHANGED bufAttached
    /\ UNCHANGED notCtx

CtxNext ==
    \/ \E i \in ContextIndexes : CtxSetRawResponse(i)
    \/ \E i \in ContextIndexes : CtxSetResponse(i)
    \/ \E i, j \in ContextIndexes : CtxCopy(i, j)
    \/ \E i \in ContextIndexes : CtxReleaseRawR(i)

----------------------------------------------------------------------------
(***************************************************************************)
(* Who owns the bytes of a cache entry: MemCache.Store, writes of the      *)
(* caller to the slice it stored, and the patching of a hit.               *)
(***************************************************************************)
(* The responses tryStore packs for the query a.b. IN A.                    *)
StoreInputs == {Pack(ReplyAnswer(CacheQuery(1, NameAB))), Pack(ReplyNoData(CacheQuery(1, NameAB)))}

(* The bytes elem.packet refers to.                                         *)
ElemBytes == IF elemPacket = "packet" THEN inPacket ELSE ownBuf

StoreInit ==
    /\ storeCopies \in BOOLEAN
    /\ inPacket = << >>
    /\ ownBuf = << >>
    /\ elemPacket = "nil"
    /\ elemOffsets = [offsets |-> Zeros(MaxTTLOffsets), count |-> 0]
    /\ hitRespRaw = << >>
    /\ storedBytes = << >>

(* tryStore packs a response and calls MemCache.Store: the Store of         *)
(* mem_cache_test.go:297-314 copies the input into buf,  the Store of        *)
(* mem_cache.go:186-201 keeps the caller's slice (v: v).                    *)
MemCacheStore ==
    /\ \E in \in StoreInputs :
          /\ inPacket' = in
          /\ storedBytes' = in
          /\ elemOffsets' = ExtractTTLOffsets(in)
          /\ IF storeCopies
             THEN ownBuf' = in /\ elemPacket' = "buf"
             ELSE ownBuf' = ownBuf /\ elemPacket' = "packet"
    /\ UNCHANGED <<storeCopies, hitRespRaw>>
    /\ UNCHANGED notStore

(* The caller writes a byte into the slice it handed to Store.              *)
CallerWrite ==
    /\ elemPacket # "nil"
    /\ \E pos \in {1, 4, Len(inPacket)}, b \in {0, 255} :
          inPacket' = [inPacket EXCEPT ![pos] = b]
    /\ UNCHANGED <<storeCopies, ownBuf, elemPacket, elemOffsets, hitRespRaw, storedBytes>>
    /\ UNCHANGED notStore

(* The hit path of Exec (cache.go:178-236) on the packet Get returned:      *)
(* copy(respRaw, packet), then the id, the TTLs and the TC bit are patched  *)
(* in respRaw.                                                              *)
HitPatch ==
    /\ elemPacket # "nil"
    /\ \E id \in {4660, 4661}, lazyHit \in BOOLEAN, elapsed \in 0..1 :
          LET withId == PutUint16At(ElemBytes, 0, id)
              patched == IF lazyHit
                         THEN PatchLazy(withId, elemOffsets.offsets, elemOffsets.count,
                                        DefaultLazyReplyTTL)
                         ELSE PatchFresh(withId, elemOffsets.offsets, elemOffsets.count, elapsed)
          IN hitRespRaw' = TruncateUDP(patched, TRUE)
    /\ UNCHANGED <<storeCopies, inPacket, ownBuf, elemPacket, elemOffsets, storedBytes>>
    /\ UNCHANGED notStore

StoreNext ==
    \/ MemCacheStore
    \/ CallerWrite
    \/ HitPatch

----------------------------------------------------------------------------
(***************************************************************************)
(* The capacity of MemCache: NewMemCache (mem_cache.go:136-160),           *)
(* ShardedLRU (concurrent_lru.go) and LRU (lru.go), with a shard count of  *)
(* 2^ShardBits and a floor of MinSizePerShard entries per shard in place   *)
(* of the code's 64 (or 128) and 16.                                       *)
(***************************************************************************)
ShardBits == 1
MinSizePerShard == 2
MaxSize == 6
MaxKeys == 5

RECURSIVE Pow2(_)
Pow2(n) == IF n = 0 THEN 1 ELSE 2 * Pow2(n - 1)

shardSize == Pow2(ShardBits)

LruKeys == 1..MaxKeys

ShardIndexes == 0..(shardSize - 1)

CacheSizes == {0, MaxSize \div 2, MaxSize}

(* NewMemCache: the maxSizePerShard it gives NewShardedLRU.                 *)
SizePerShard(n) ==
    LET sz == IF n <= 0 THEN shardSize * MinSizePerShard ELSE n
    IN IF sz \div shardSize < MinSizePerShard THEN MinSizePerShard ELSE sz \div shardSize

RECURSIVE SeqSum(_)
SeqSum(xs) == IF xs = << >> THEN 0 ELSE Head(xs) + SeqSum(Tail(xs))

(* ShardedLRU.Len: the sum of the shards' LRU.Len.                          *)
ShardedLen == SeqSum([i \in 1..shardSize |-> Len(shardList[i - 1])])

InList(l, key) == \E i \in 1..Len(l) : l[i] = key

Without(l, key) == SelectSeq(l, LAMBDA k : k # key)

(* LRU.Add (lru.go:35-68) on the list of one shard: the second definition;  *)
(* the first leaves out the reuse of the oldest element of a full list.     *)
LruAddNoReuse(l, maxSize, key) ==
    IF InList(l, key) THEN Append(Without(l, key), key)
    ELSE Append(l, key)

LruAdd(l, maxSize, key) ==
    IF InList(l, key) THEN Append(Without(l, key), key)
    ELSE IF Len(l) >= maxSize THEN Append(Tail(l), key)
    ELSE Append(l, key)

LruInit ==
    /\ cacheSize \in CacheSizes
    /\ shardOf \in [LruKeys -> ShardIndexes]
    \* the keys are interchangeable: they are numbered in the order of
    \* their shards
    /\ \A j, k \in LruKeys : j <= k => shardOf[j] <= shardOf[k]
    /\ shardList = [i \in ShardIndexes |-> << >>]
    /\ evicted = FALSE

(* MemCache.Store -> ShardedLRU.Add -> getShard(key).Add.                   *)
LruStore(key) ==
    /\ LET l == shardList[shardOf[key]] IN
       /\ shardList' = [shardList EXCEPT ![shardOf[key]] = LruAdd(l, SizePerShard(cacheSize), key)]
       /\ evicted' = (evicted \/ (~InList(l, key) /\ Len(l) >= SizePerShard(cacheSize)))
    /\ UNCHANGED <<cacheSize, shardOf>>
    /\ UNCHANGED notLru

(* MemCache.Get -> LRU.Get (lru.go:70-77): a found element moves to the     *)
(* back.                                                                    *)
LruGet(key) ==
    /\ InList(shardList[shardOf[key]], key)
    /\ shardList' = [shardList EXCEPT ![shardOf[key]] = Append(Without(@, key), key)]
    /\ UNCHANGED <<cacheSize, shardOf, evicted>>
    /\ UNCHANGED notLru

(* ShardedLRU.Clean (concurrent_lru.go:57-62) with a predicate that holds   *)
(* of the keys in gone.                                                     *)
LruClean ==
    /\ \E gone \in SUBSET {k \in LruKeys : InList(shardList[shardOf[k]], k)} :
          /\ gone # {}
          /\ shardList' = [i \in ShardIndexes |-> SelectSeq(shardList[i], LAMBDA k : k \notin gone)]
    /\ UNCHANGED <<cacheSize, shardOf, evicted>>
    /\ UNCHANGED notLru

LruNext ==
    \/ \E key \in LruKeys : LruStore(key)
    \/ \E key \in LruKeys : LruGet(key)
    \/ LruClean

----------------------------------------------------------------------------
(***************************************************************************)
(* MemCache as a key-value store (mem_cache.go:162-201) on one shard of    *)
(* the LRU: callers run Store concurrently, each storing a value of its    *)
(* own; the shard's mutex makes LRU.Add one step.                          *)
(***************************************************************************)
MaxKvKeys == 2
MaxCallers == 2

KvKeys == 1..MaxKvKeys

Callers == 1..MaxCallers

KvMaxSize == MaxKvKeys - 1

(* LRU.Add on the shard [l, val] (lru.go:35-68): an element that exists     *)
(* gets the new value and moves to the back, a full list reuses its oldest  *)
(* element.  The second definition; the first leaves the value of an        *)
(* existing element as it is.                                               *)
KvAddKeepsValue(l, val, key, v) ==
    IF InList(l, key) THEN [l |-> LruAdd(l, KvMaxSize, key), val |-> val]
    ELSE IF Len(l) >= KvMaxSize
    THEN [l |-> LruAdd(l, KvMaxSize, key), val |-> [val EXCEPT ![Head(l)] = 0, ![key] = v]]
    ELSE [l |-> LruAdd(l, KvMaxSize, key), val |-> [val EXCEPT ![key] = v]]

KvAdd(l, val, key, v) ==
    IF InList(l, key) THEN [l |-> LruAdd(l, KvMaxSize, key), val |-> [val EXCEPT ![key] = v]]
    ELSE IF Len(l) >= KvMaxSize
    THEN [l |-> LruAdd(l, KvMaxSize, key), val |-> [val EXCEPT ![Head(l)] = 0, ![key] = v]]
    ELSE [l |-> LruAdd(l, KvMaxSize, key), val |-> [val EXCEPT ![key] = v]]

(* MemCache.Get (mem_cache.go:173-184): 0 stands for the nil slice.         *)
KvGetValue(key) ==
    IF kvClosed THEN 0
    ELSE IF ~InList(kvList, key) THEN 0
    ELSE kvVal[key]

KvInit ==
    /\ kvClosed = FALSE
    /\ kvList = << >>
    /\ kvVal = [k \in KvKeys |-> 0]
    /\ kvCall = [c \in Callers |-> 0]
    /\ kvLast = [k \in KvKeys |-> [v |-> 0, over |-> FALSE, gone |-> FALSE]]

(* MemCache.Store up to the isClosed test (mem_cache.go:186-194): on a      *)
(* closed cache it returns at once.                                         *)
KvStoreCall(c, key) ==
    /\ kvCall[c] = 0
    /\ IF kvClosed
       THEN /\ kvLast' = [kvLast EXCEPT ![key] = [v |-> c, over |-> FALSE, gone |-> FALSE]]
            /\ UNCHANGED kvCall
       ELSE /\ kvCall' = [kvCall EXCEPT ![c] = key]
            /\ UNCHANGED kvLast
    /\ UNCHANGED <<kvClosed, kvList, kvVal>>
    /\ UNCHANGED notKv

(* The rest of Store: lru.Add under the shard's mutex, and the return.      *)
KvStoreAdd(c) ==
    /\ kvCall[c] # 0
    /\ LET key == kvCall[c]
           a == KvAdd(kvList, kvVal, key, c)
           reused == IF ~InList(kvList, key) /\ Len(kvList) >= KvMaxSize
                     THEN {Head(kvList)} ELSE {}
       IN /\ kvList' = a.l
          /\ kvVal' = a.val
          /\ kvLast' = [k \in KvKeys |->
                          IF k = key THEN [v |-> c, over |-> InList(kvList, key), gone |-> FALSE]
                          ELSE IF k \in reused THEN [kvLast[k] EXCEPT !.gone = TRUE]
                          ELSE kvLast[k]]
    /\ kvCall' = [kvCall EXCEPT ![c] = 0]
    /\ UNCHANGED kvClosed
    /\ UNCHANGED notKv

(* MemCache.Get -> LRU.Get: a found element moves to the back.              *)
KvGet(key) ==
    /\ ~kvClosed
    /\ InList(kvList, key)
    /\ kvList' = Append(Without(kvList, key), key)
    /\ UNCHANGED <<kvClosed, kvVal, kvCall, kvLast>>
    /\ UNCHANGED notKv

(* A sweep of startCleaner (mem_cache.go:203-224) at which the entries of   *)
(* the keys in expired have ex <= now.                                      *)
KvClean ==
    /\ ~kvClosed
    /\ \E expired \in SUBSET {k \in KvKeys : InList(kvList, k)} :
          /\ expired # {}
          /\ kvList' = SelectSeq(kvList, LAMBDA k : k \notin expired)
          /\ kvVal' = [k \in KvKeys |-> IF k \in expired THEN 0 ELSE kvVal[k]]
          /\ kvLast' = [k \in KvKeys |->
                          IF k \in expired THEN [kvLast[k] EXCEPT !.gone = TRUE] ELSE kvLast[k]]
    /\ UNCHANGED <<kvClosed, kvCall>>
    /\ UNCHANGED notKv

(* MemCache.Close (mem_cache.go:166-171).                                   *)
KvClose ==
    /\ ~kvClosed
    /\ kvClosed' = TRUE
    /\ UNCHANGED <<kvList, kvVal, kvCall, kvLast>>
    /\ UNCHANGED notKv

KvNext ==
    \/ \E c \in Callers, key \in KvKeys : KvStoreCall(c, key)
    \/ \E c \in Callers : KvStoreAdd(c)
    \/ \E key \in KvKeys : KvGet(key)
    \/ KvClean
    \/ KvClose

----------------------------------------------------------------------------
(***************************************************************************)
(* The cache key: dnsutils.GetMsgKey of msg.go:181-241 (salt,              *)
(* cacheEverything) and of part_004:26-51 (question and first option of    *)
(* the first extra record), applied to queries with an OPT record.         *)
(***************************************************************************)
MaxOptions == 2

(* EDNS0 options: Client Subnet (family, source netmask, address), Padding  *)
(* and Cookie.                                                              *)
Ecs(family, netmask, address) ==
    [code |-> "SUBNET", Family |-> family, SourceNetmask |-> netmask, Address |-> address]

OtherOption(code) == [code |-> code, Family |-> 0, SourceNetmask |-> 0, Address |-> << >>]

EcsOptions == {Ecs(1, 20, <<1, 2, 255, 0>>), Ecs(1, 0, <<0, 0, 0, 0>>)}

OtherOptions == {OtherOption("PADDING"), OtherOption("COOKIE")}

OptionLists ==
    UNION {[1..n -> EcsOptions \cup OtherOptions] : n \in 0..MaxOptions}

(* A record of the Extra section: an OPT record with its options, or        *)
(* another record.                                                          *)
OptRecord(options) == [opt |-> TRUE, Option |-> options]

OtherRecord == [opt |-> FALSE, Option |-> << >>]

KeyExtras ==
    {<< >>} \cup {<<OptRecord(ol)>> : ol \in OptionLists}
            \cup {<<OtherRecord, OptRecord(ol)>> : ol \in OptionLists}

KeyQuery(id, question, extra) == [Id |-> id, Question |-> question, Extra |-> extra]

KeyQuestions == {<< >>, <<Question(NameAB, TypeA, ClassINET)>>}

KeyQueries(ids) ==
    {KeyQuery(id, qs, ex) : id \in ids, qs \in KeyQuestions, ex \in KeyExtras}

IsEcs(o) == o.code = "SUBNET"

(* What two queries agree on when they differ only in the id and in the     *)
(* options other than Client Subnet.                                        *)
KeyNormal(q) ==
    [q EXCEPT !.Id = 0,
              !.Extra = [i \in 1..Len(q.Extra) |->
                           [q.Extra[i] EXCEPT !.Option = SelectSeq(@, IsEcs)]]]

(* The bytes GetMsgKey of msg.go writes for the ECS option: the address     *)
(* cut to the source netmask, the last byte masked (msg.go:212-232).        *)
EcsKeyBytes(ecs) ==
    IF ecs.SourceNetmask > 0
    THEN LET vb == (ecs.SourceNetmask + 7) \div 8
             validBytes == IF vb > Len(ecs.Address) THEN Len(ecs.Address) ELSE vb
             remainder == ecs.SourceNetmask % 8
             unit == Pow2(8 - remainder)
         IN PutUint16(ecs.Family) \o <<ecs.SourceNetmask>>
            \o [i \in 1..validBytes |->
                  IF i = validBytes /\ remainder # 0
                  THEN (ecs.Address[i] \div unit) * unit
                  ELSE ecs.Address[i]]
    ELSE << >>

KeyFailed == [key |-> << >>, failed |-> TRUE]

(* GetMsgKey(m, salt, cacheEverything) of msg.go:181-241.                   *)
GetMsgKeySalted(m, salt, cacheEverything) ==
    IF Len(m.Question) = 0 THEN KeyFailed
    ELSE LET q == m.Question[1]
             opts0 == SelectSeq(m.Extra, LAMBDA x : x.opt)
             subnets == IF opts0 = << >> THEN << >> ELSE SelectSeq(opts0[1].Option, IsEcs)
         IN [key |-> PutUint16(salt) \o q.Name \o PutUint16(q.Qtype) \o PutUint16(q.Qclass)
                     \o (IF cacheEverything /\ subnets # << >>
                         THEN EcsKeyBytes(subnets[1]) ELSE << >>),
             failed |-> FALSE]

(* GetMsgKey(m) of part_004:26-51: m.Question[0] and opt.Option[0] are      *)
(* indexed without a test of the length.                                    *)
GetMsgKeyFirstOption(m) ==
    IF Len(m.Question) = 0 THEN KeyFailed
    ELSE LET q == m.Question[1]
             base == q.Name \o PutUint16(q.Qtype) \o PutUint16(q.Qclass)
         IN IF Len(m.Extra) > 0 /\ m.Extra[1].opt
            THEN IF Len(m.Extra[1].Option) = 0 THEN KeyFailed
                 ELSE LET o == m.Extra[1].Option[1] IN
                      [key |-> base \o (IF IsEcs(o)
                                        THEN PutUint16(o.Family) \o <<o.SourceNetmask>> \o o.Address
                                        ELSE << >>),
                       failed |-> FALSE]
            ELSE [key |-> base, failed |-> FALSE]

KeyInit ==
    /\ keyOneArg \in BOOLEAN
    /\ keySalt \in {0, 258}
    /\ keyEverything \in BOOLEAN
    /\ keyOneArg => (keySalt = 0 /\ keyEverything)
    /\ keyQ1 \in KeyQueries({0})
    /\ keyQ2 \in KeyQueries({0, 4660})
    /\ KeyNormal(keyQ1) = KeyNormal(keyQ2)
    /\ keyOut = << >>

(* The cache plugin derives the keys of the two queries.                    *)
KeyDerive ==
    /\ keyOut = << >>
    /\ keyOut' = IF keyOneArg
                 THEN <<GetMsgKeyFirstOption(keyQ1), GetMsgKeyFirstOption(keyQ2)>>
                 ELSE <<GetMsgKeySalted(keyQ1, keySalt, keyEverything),
                        GetMsgKeySalted(keyQ2, keySalt, keyEverything)>>
    /\ UNCHANGED <<keyOneArg, keySalt, keyEverything, keyQ1, keyQ2>>
    /\ UNCHANGED notKey

KeyNext == KeyDerive

----------------------------------------------------------------------------
(***************************************************************************)
(* The lazy refresh of one key (doLazyUpdate) next to the request that     *)
(* started it: the hit path of Exec goes on writing the client response    *)
(* into its query context while the singleflight function runs in its own  *)
(* goroutine.                                                              *)
(***************************************************************************)

(* context.WithTimeout(..., 5*time.Second) of doLazyUpdate, in seconds.     *)
RefreshTimeout == 5

MaxRefreshSeconds == 6

RefreshQuery == CacheQuery(1, NameAB)

(* The cached bytes the hit path hands to SetRawResponse.                   *)
RefreshRaw == Pack(ReplyAnswer(RefreshQuery))

(* The parent of the refresh's context: context.Background() is never       *)
(* done.  The first definition derives the context from the request's.      *)
RefreshParentFromRequest(requestDone) == requestDone

RefreshParentDone(requestDone) == FALSE

(* Done of a context made by context.WithTimeout(parent, d): its parent is  *)
(* done, its timer fired or its cancel func was called.                     *)
WithTimeoutDone(parentDone, ownDone) == parentDone \/ ownDone

(* bgCtx.Done() as the chain of the refresh sees it.                        *)
BgCtxDone == WithTimeoutDone(RefreshParentDone(reqDone), bgDone)

RfInit ==
    /\ copyInTask \in BOOLEAN
    /\ reqPc = "hit"
    /\ reqQCtx = NewContext
    /\ reqDone = FALSE
    /\ taskPc = "none"
    /\ lQCtx = NewContext
    /\ bgDone = FALSE
    /\ bgElapsed = 0
    /\ refreshStored = [r |-> NilMsg, own |-> FALSE]
    /\ refreshErr = "none"
    /\ copyRaced = FALSE

(* Exec calls doLazyUpdate on a lazy hit.  Either the context is copied     *)
(* here, before DoChan (cache.go:282-287), or DoChan starts the goroutine   *)
(* whose function copies it (cache.go:443-446).                            *)
RfDoLazyUpdate ==
    /\ reqPc = "hit"
    /\ reqPc' = "spawned"
    /\ lQCtx' = IF copyInTask THEN lQCtx ELSE CopyTo(reqQCtx)
    /\ taskPc' = IF copyInTask THEN "copy" ELSE "ctx"
    /\ UNCHANGED <<copyInTask, reqQCtx, reqDone, bgDone, bgElapsed, refreshStored, refreshErr, copyRaced>>
    /\ UNCHANGED notRf

(* qCtx.SetRawResponse(respRaw, ...) of the hit path (cache.go:238-240,     *)
(* 397-399).                                                                *)
RfSetRawResponse ==
    /\ reqPc = "spawned"
    /\ reqPc' = "raw"
    /\ reqQCtx' = SetRawResponse(reqQCtx, RefreshRaw)
    /\ UNCHANGED <<copyInTask, reqDone, taskPc, lQCtx, bgDone, bgElapsed, refreshStored, refreshErr, copyRaced>>
    /\ UNCHANGED notRf

(* The placeholder response of the hit path (cache.go:401-404); the Exec    *)
(* that copies before DoChan sets none.                                     *)
RfSetResponse ==
    /\ reqPc = "raw"
    /\ copyInTask
    /\ reqPc' = "responded"
    /\ reqQCtx' = SetResponse(reqQCtx, SetReply(RefreshQuery))
    /\ UNCHANGED <<copyInTask, reqDone, taskPc, lQCtx, bgDone, bgElapsed, refreshStored, refreshErr, copyRaced>>
    /\ UNCHANGED notRf

(* Exec returns nil to its caller (cache.go:243, 406).                      *)
RfReturn ==
    /\ reqPc = IF copyInTask THEN "responded" ELSE "raw"
    /\ reqPc' = "returned"
    /\ UNCHANGED <<copyInTask, reqQCtx, reqDone, taskPc, lQCtx, bgDone, bgElapsed, refreshStored, refreshErr, copyRaced>>
    /\ UNCHANGED notRf

(* The context of the request is cancelled or its deadline passes.          *)
RfRequestCancel ==
    /\ reqPc # "hit"
    /\ ~reqDone
    /\ reqDone' = TRUE
    /\ UNCHANGED <<copyInTask, reqPc, reqQCtx, taskPc, lQCtx, bgDone, bgElapsed, refreshStored, refreshErr, copyRaced>>
    /\ UNCHANGED notRf

(* lQCtx := qCtx.Copy() inside the singleflight function (cache.go:446): a  *)
(* read of the request's context that nothing orders with the writes of    *)
(* the hit path; it sees the writes made so far.                            *)
RfTaskCopy ==
    /\ taskPc = "copy"
    /\ taskPc' = "ctx"
    /\ lQCtx' = CopyTo(reqQCtx)
    /\ copyRaced' = (reqPc \in {"spawned", "raw"})
    /\ UNCHANGED <<copyInTask, reqPc, reqQCtx, reqDone, bgDone, bgElapsed, refreshStored, refreshErr>>
    /\ UNCHANGED notRf

(* bgCtx, cancel := context.WithTimeout(context.Background(), 5s)           *)
(* (cache.go:291, 447).                                                     *)
RfWithTimeout ==
    /\ taskPc = "ctx"
    /\ taskPc' = "chain"
    /\ bgElapsed' = 0
    /\ bgDone' = FALSE
    /\ UNCHANGED <<copyInTask, reqPc, reqQCtx, reqDone, lQCtx, refreshStored, refreshErr, copyRaced>>
    /\ UNCHANGED notRf

(* A second passes while the chain runs; the timer of bgCtx fires at the    *)
(* deadline.                                                                *)
RfTick ==
    /\ taskPc = "chain"
    /\ bgElapsed < MaxRefreshSeconds
    /\ bgElapsed' = bgElapsed + 1
    /\ bgDone' = (bgDone \/ bgElapsed + 1 >= RefreshTimeout)
    /\ UNCHANGED <<copyInTask, reqPc, reqQCtx, reqDone, taskPc, lQCtx, refreshStored, refreshErr, copyRaced>>
    /\ UNCHANGED notRf

(* ExecChainNode(bgCtx, lQCtx, next) returns, tryStore and the deferred     *)
(* cancel run (cache.go:290-297, 447-451).  A chain that sets no response   *)
(* leaves the one lQCtx came with; a chain gives up with the context's      *)
(* error only once bgCtx is done.                                           *)
RfChainReturn ==
    /\ taskPc = "chain"
    /\ \E res \in ChainReplies(RefreshQuery)
                  \cup (IF BgCtxDone THEN {[r |-> NilMsg, err |-> "ctx"]} ELSE {}) :
          LET after == IF res.r.nil THEN lQCtx ELSE SetResponse(lQCtx, res.r) IN
          /\ lQCtx' = after
          /\ refreshErr' = res.err
          /\ refreshStored' =
                IF res.err = "nil" /\ ~after.r.nil /\ TryStoreAccepts(after.r)
                THEN [r |-> after.r, own |-> res.r.nil]
                ELSE refreshStored
    /\ taskPc' = "done"
    /\ bgDone' = TRUE
    /\ UNCHANGED <<copyInTask, reqPc, reqQCtx, reqDone, bgElapsed, copyRaced>>
    /\ UNCHANGED notRf

RfNext ==
    \/ RfDoLazyUpdate
    \/ RfSetRawResponse
    \/ RfSetResponse
    \/ RfReturn
    \/ RfRequestCancel
    \/ RfTaskCopy
    \/ RfWithTimeout
    \/ RfTick
    \/ RfChainReturn

----------------------------------------------------------------------------
(***************************************************************************)
(* tryStore as a function of the response it is given: the responses a     *)
(* chain can leave in the context, with records in any of the three        *)
(* sections.                                                               *)
(***************************************************************************)

TsQuery == CacheQuery(1, NameAB)

TsRRs(type, ttls) == {<< >>} \cup {<<RR(NameAB, type, ttl, 4)>> : ttl \in ttls}

TsReplies ==
    {[SetReply(TsQuery) EXCEPT !.Rcode = rcode, !.Answer = an, !.Ns = ns, !.Extra = ex,
                               !.Truncated = tc] :
        rcode \in {RcodeSuccess, RcodeNameError, RcodeServerFailure},
        an \in TsRRs(TypeA, {0, 120}),
        ns \in TsRRs(TypeSOA, {0, 60, 900}),
        ex \in TsRRs(TypeA, {30}) \cup {<<RR(<<ChDot>>, TypeOPT, 0, 0)>>},
        tc \in BOOLEAN}

TsInit ==
    /\ args \in CacheArgs
    /\ clock \in {0, NanosPerSecond}
    /\ closed = FALSE
    /\ lru = [k \in CacheKeys |-> NoElem]
    /\ sfCalls = [k \in CacheKeys |-> FALSE]
    /\ nExec = [k \in CacheKeys |-> 0]
    /\ nDefer = [k \in CacheKeys |-> 0]
    /\ cq = [i \in QueryIndexes |-> NoQuery]
    /\ sfQ = [k \in CacheKeys |-> NilMsg]
    /\ last = NoQuery
    /\ lazyRuns = [k \in CacheKeys |-> 0]
    /\ genStarted = [k \in CacheKeys |-> {}]
    /\ dupRun = [k \in CacheKeys |-> FALSE]
    /\ tsReply \in TsReplies
    /\ tsDone = FALSE

(* c.tryStore(key, r) (cache.go:254-280) for the response of TsQuery.       *)
TsTryStore ==
    /\ ~tsDone
    /\ tsDone' = TRUE
    /\ lru' = IF TryStoreAccepts(tsReply)
              THEN [lru EXCEPT ![GetMsgKey(TsQuery)] = StoredElem(tsReply, "miss")]
              ELSE lru
    /\ UNCHANGED <<args, clock, closed, sfCalls, nExec, nDefer, cq, sfQ, last, cacheHistory>>
    /\ UNCHANGED tsReply
    /\ UNCHANGED notTsCache

TsNext == TsTryStore

----------------------------------------------------------------------------
(***************************************************************************)
(* ConditionNode (pkg/executable_seq/if_node.go): one invocation of Exec   *)
(* on a node built with any matcher outcome, subchains of any length and   *)
(* any outer next.                                                         *)
(***************************************************************************)

MaxSubchain == 2

(* What ConditionMatcher.Match gives: no matcher, a result, or an error.    *)
MatcherOutcomes == {"absent", "true", "false", "error"}

(* The continuation ConditionNode.Exec selects (if_node.go:233-245).  The   *)
(* first definition takes the else subchain whenever the then subchain is   *)
(* not taken.                                                               *)
SelectedElseOnAbsent(matcher, thenLen, elseLen) ==
    IF matcher = "error" THEN "error"
    ELSE IF matcher = "true" /\ thenLen > 0 THEN "then"
    ELSE IF elseLen > 0 THEN "else"
    ELSE "next"

Selected(matcher, thenLen, elseLen) ==
    IF matcher = "absent" THEN "next"
    ELSE IF matcher = "error" THEN "error"
    ELSE IF matcher = "true" /\ thenLen > 0 THEN "then"
    ELSE IF matcher = "false" /\ elseLen > 0 THEN "else"
    ELSE "next"

(* ExecChainNode(ctx, qCtx, n): a nil node returns nil, any other node is   *)
(* executed with its own next.                                              *)
ExecChainNode(hasNode, at) == IF hasNode THEN at ELSE [at |-> "done", k |-> 0]

CnInit ==
    /\ cnMatcher \in MatcherOutcomes
    /\ cnThen \in 0..MaxSubchain
    /\ cnElse \in 0..MaxSubchain
    /\ cnNext \in BOOLEAN
    /\ cnPc = [at |-> "cond", k |-> 0]
    /\ ranThen = 0
    /\ ranElse = 0
    /\ ranNext = 0
    /\ cnErr = "nil"
    /\ cnStopped = FALSE

(* ConditionNode.Exec (if_node.go:232-246).                                 *)
CnExec ==
    /\ cnPc.at = "cond"
    /\ LET sel == Selected(cnMatcher, cnThen, cnElse) IN
       /\ cnPc' = IF sel = "error" THEN [at |-> "done", k |-> 0]
                  ELSE IF sel = "next" THEN ExecChainNode(cnNext, [at |-> "next", k |-> 0])
                  ELSE [at |-> sel, k |-> 1]
       /\ cnErr' = IF sel = "error" THEN "matcher failed" ELSE cnErr
       /\ ranThen' = IF sel = "then" THEN ranThen + 1 ELSE ranThen
       /\ ranElse' = IF sel = "else" THEN ranElse + 1 ELSE ranElse
       /\ ranNext' = IF sel = "next" /\ cnNext THEN ranNext + 1 ELSE ranNext
    /\ UNCHANGED <<cnMatcher, cnThen, cnElse, cnNext, cnStopped>>
    /\ UNCHANGED notCn

(* Node k of the selected subchain runs: it goes on with its next, the      *)
(* following node or, for the last node, what LinkNext linked it to         *)
(* (if_node.go:40-45), or it returns without its next, with or without an   *)
(* error.                                                                   *)
CnSubNode ==
    /\ cnPc.at \in {"then", "else"}
    /\ LET len == IF cnPc.at = "then" THEN cnThen ELSE cnElse IN
       \E how \in {"pass", "stop", "err"} :
          /\ cnPc' = IF how # "pass" THEN [at |-> "done", k |-> 0]
                     ELSE IF cnPc.k < len THEN [cnPc EXCEPT !.k = @ + 1]
                     ELSE ExecChainNode(cnNext, [at |-> "next", k |-> 0])
          /\ ranNext' = IF how = "pass" /\ cnPc.k = len /\ cnNext THEN ranNext + 1 ELSE ranNext
          /\ cnErr' = IF how = "err" THEN "err" ELSE cnErr
          /\ cnStopped' = (cnStopped \/ how # "pass")
    /\ UNCHANGED <<cnMatcher, cnThen, cnElse, cnNext, ranThen, ranElse>>
    /\ UNCHANGED notCn

(* The outer next runs and the rest of the chain returns.                   *)
CnNextNode ==
    /\ cnPc.at = "next"
    /\ cnPc' = [at |-> "done", k |-> 0]
    /\ UNCHANGED <<cnMatcher, cnThen, cnElse, cnNext, ranThen, ranElse, ranNext, cnErr, cnStopped>>
    /\ UNCHANGED notCn

CnNext ==
    \/ CnExec
    \/ CnSubNode
    \/ CnNextNode

----------------------------------------------------------------------------
(***************************************************************************)
(* conditionMatcher.Match and its pool of exprParamsPlaceHolder            *)
(* (if_node.go:144-230): requests that evaluate the expression             *)
(* concurrently and one after the other.                                   *)
(***************************************************************************)

MaxRequests == 2

Requests == 1..MaxRequests

(* The placeholders that can exist: each request allocates at most one.     *)
Placeholders == 1..MaxRequests

(* The variables of the expression.                                         *)
ExprVars == {"a", "b"}

(* exprResultNull and a result recorded by a request (by is history).       *)
ExprNull == [val |-> "nil", by |-> 0]

(* newExprParamsPlaceHolder (if_node.go:161-165); ctx and qCtx are named    *)
(* by the request they belong to, 0 for nil.                                *)
NewPlaceHolder == [ctx |-> 0, qCtx |-> 0, res |-> [v \in ExprVars |-> ExprNull]]

(* exprParamsPlaceHolder.Reset (if_node.go:152-159).  The first definition  *)
(* leaves the result map as it is.                                          *)
ResetKeepsRes(e) == [e EXCEPT !.ctx = 0, !.qCtx = 0]

Reset(e) == [ctx |-> 0, qCtx |-> 0, res |-> [v \in ExprVars |-> ExprNull]]

PhInit ==
    /\ phPool = {}
    /\ phMade = {}
    /\ ph = [p \in Placeholders |-> NewPlaceHolder]
    /\ phReq = [r \in Requests |-> [pc |-> "idle", p |-> 0, seen |-> [v \in ExprVars |-> ExprNull]]]

(* Match up to the call of Eval (if_node.go:200-212): the pool hands out    *)
(* one of its placeholders, which is reset, or none, and a new one is made. *)
PhGet(r) ==
    /\ phReq[r].pc = "idle"
    /\ \/ \E p \in phPool :
             /\ phPool' = phPool \ {p}
             /\ ph' = [ph EXCEPT ![p] = [Reset(ph[p]) EXCEPT !.ctx = r, !.qCtx = r]]
             /\ phReq' = [phReq EXCEPT ![r].pc = "held", ![r].p = p]
             /\ UNCHANGED phMade
       \/ \E p \in Placeholders \ phMade :
             /\ \A o \in Placeholders \ phMade : p <= o
             /\ phMade' = phMade \cup {p}
             /\ ph' = [ph EXCEPT ![p] = [NewPlaceHolder EXCEPT !.ctx = r, !.qCtx = r]]
             /\ phReq' = [phReq EXCEPT ![r].pc = "held", ![r].p = p]
             /\ UNCHANGED phPool
    /\ UNCHANGED notPh

(* The expression reads variable v: exprParamsPlaceHolder.Get runs the      *)
(* matcher and records its result (if_node.go:167-186).                     *)
PhEvalVar(r, v) ==
    /\ phReq[r].pc = "held"
    /\ ph[phReq[r].p].res[v].by # r
    /\ \E val \in {"true", "false"} :
          ph' = [ph EXCEPT ![phReq[r].p].res[v] = [val |-> val, by |-> r]]
    /\ UNCHANGED <<phPool, phMade, phReq>>
    /\ UNCHANGED notPh

(* Eval has returned a boolean: makeResultZapFields reads the result map    *)
(* for the log (if_node.go:225-228).                                        *)
PhLog(r) ==
    /\ phReq[r].pc = "held"
    /\ phReq' = [phReq EXCEPT ![r].pc = "logged", ![r].seen = ph[phReq[r].p].res]
    /\ UNCHANGED <<phPool, phMade, ph>>
    /\ UNCHANGED notPh

(* Match returns, with the result or with the error of Eval, and the        *)
(* deferred Put gives the placeholder back as it is (if_node.go:207).       *)
PhPut(r) ==
    /\ phReq[r].pc \in {"held", "logged"}
    /\ phPool' = phPool \cup {phReq[r].p}
    /\ phReq' = [phReq EXCEPT ![r].pc = "done"]
    /\ UNCHANGED <<phMade, ph>>
    /\ UNCHANGED notPh

PhNext ==
    \/ \E r \in Requests : PhGet(r)
    \/ \E r \in Requests, v \in ExprVars : PhEvalVar(r, v)
    \/ \E r \in Requests : PhLog(r)
    \/ \E r \in Requests : PhPut(r)

----------------------------------------------------------------------------
(***************************************************************************)
(* SafeClose (pkg/safe_close/safe_close.go): goroutines that Attach,       *)
(* callers of CloseWait, and the service's SendCloseSignal and Done.       *)
(***************************************************************************)

MaxAttach == 2

MaxClosers == 2

Attachers == 1..MaxAttach

Closers == 1..MaxClosers

(* The select of Attach on closeSignal (safe_close.go:70-76): wg.Add(1)     *)
(* only while the signal is open.  The first definition always adds.        *)
AttachAddsAlways(signalClosed) == TRUE

AttachAdds(signalClosed) == ~signalClosed

ScInit ==
    /\ scSignal = FALSE
    /\ scWg = 0
    /\ scDone = FALSE
    /\ scSub = [a \in Attachers |-> "none"]
    /\ scWait = [c \in Closers |-> "idle"]

(* Attach (safe_close.go:68-82): under the mutex, return if the service was *)
(* closed, else wg.Add(1) and start f in a goroutine.                       *)
ScAttach(a) ==
    /\ scSub[a] = "none"
    /\ IF AttachAdds(scSignal)
       THEN /\ scWg' = scWg + 1
            /\ scSub' = [scSub EXCEPT ![a] = "running"]
       ELSE /\ scSub' = [scSub EXCEPT ![a] = "refused"]
            /\ UNCHANGED scWg
    /\ UNCHANGED <<scSignal, scDone, scWait>>
    /\ UNCHANGED notSc

(* An attached goroutine calls its done callback, s.wg.Done.                *)
ScSubDone(a) ==
    /\ scSub[a] = "running"
    /\ scSub' = [scSub EXCEPT ![a] = "finished"]
    /\ scWg' = scWg - 1
    /\ UNCHANGED <<scSignal, scDone, scWait>>
    /\ UNCHANGED notSc

(* SendCloseSignal called by the service (safe_close.go:39-52).             *)
ScSendCloseSignal ==
    /\ ~scSignal
    /\ scSignal' = TRUE
    /\ UNCHANGED <<scWg, scDone, scSub, scWait>>
    /\ UNCHANGED notSc

(* Done (safe_close.go:86-90), called by the main service goroutine.        *)
ScDoneCall ==
    /\ ~scDone
    /\ scDone' = TRUE
    /\ UNCHANGED <<scSignal, scWg, scSub, scWait>>
    /\ UNCHANGED notSc

(* CloseWait: s.SendCloseSignal(nil) (safe_close.go:33).                    *)
ScCloseWaitSignal(c) ==
    /\ scWait[c] = "idle"
    /\ scWait' = [scWait EXCEPT ![c] = "signalled"]
    /\ scSignal' = TRUE
    /\ UNCHANGED <<scWg, scDone, scSub>>
    /\ UNCHANGED notSc

(* CloseWait: s.wg.Wait() returns (safe_close.go:34).                       *)
ScCloseWaitWg(c) ==
    /\ scWait[c] = "signalled"
    /\ scWg = 0
    /\ scWait' = [scWait EXCEPT ![c] = "waited"]
    /\ UNCHANGED <<scSignal, scWg, scDone, scSub>>
    /\ UNCHANGED notSc

(* CloseWait: <-s.done and return (safe_close.go:35-36).                    *)
ScCloseWaitReturn(c) ==
    /\ scWait[c] = "waited"
    /\ scDone
    /\ scWait' = [scWait EXCEPT ![c] = "returned"]
    /\ UNCHANGED <<scSignal, scWg, scDone, scSub>>
    /\ UNCHANGED notSc

ScNext ==
    \/ \E a \in Attachers : ScAttach(a)
    \/ \E a \in Attachers : ScSubDone(a)
    \/ ScSendCloseSignal
    \/ ScDoneCall
    \/ \E c \in Closers : ScCloseWaitSignal(c)
    \/ \E c \in Closers : ScCloseWaitWg(c)
    \/ \E c \in Closers : ScCloseWaitReturn(c)

----------------------------------------------------------------------------
(***************************************************************************)
(* One shard: lru.LRU (pkg/lru/lru.go) on its linked list (pkg/list) and   *)
(* its map, node by node.  0 stands for nil.                               *)
(***************************************************************************)

LnMaxSize == 2

MaxLnKeys == 3

LnKeys == 1..MaxLnKeys

(* The list elements that can be alive at once, and one more.               *)
LnNodes == 1..(LnMaxSize + 1)

(* list.NewElem: key, prev, next and whether e.list is the shard's list.    *)
NewElem(key) == [key |-> key, prev |-> 0, next |-> 0, list |-> FALSE]

(* NewLRU (lru.go:22-33).                                                   *)
NewLRU ==
    [nodes |-> [e \in LnNodes |-> NewElem(0)], front |-> 0, back |-> 0, length |-> 0,
     m |-> [k \in LnKeys |-> 0]]

(* List.MoveToBack (list.go:58-86).                                         *)
MoveToBack(q, e) ==
    IF q.back = e THEN q
    ELSE LET p == q.nodes[e].prev
             n == q.nodes[e].next
             n1 == IF p # 0 THEN [q.nodes EXCEPT ![p].next = n] ELSE q.nodes
             n2 == IF n # 0 THEN [n1 EXCEPT ![n].prev = p] ELSE n1
             n3 == [n2 EXCEPT ![e].prev = q.back, ![e].next = 0]
             n4 == [n3 EXCEPT ![q.back].next = e]
         IN [q EXCEPT !.nodes = n4, !.front = IF p # 0 THEN q.front ELSE n, !.back = e]

(* List.PopElem (list.go:88-114).                                           *)
PopElem(q, e) ==
    LET p == q.nodes[e].prev
        n == q.nodes[e].next
        n1 == IF p # 0 THEN [q.nodes EXCEPT ![p].next = n] ELSE q.nodes
        n2 == IF n # 0 THEN [n1 EXCEPT ![n].prev = p] ELSE n1
        n3 == [n2 EXCEPT ![e].prev = 0, ![e].next = 0, ![e].list = FALSE]
    IN [q EXCEPT !.nodes = n3, !.length = q.length - 1,
                 !.front = IF p # 0 THEN q.front ELSE n,
                 !.back = IF n # 0 THEN q.back ELSE p]

(* List.PushBack (list.go:40-54).                                           *)
PushBack(q, e) ==
    LET n1 == [q.nodes EXCEPT ![e].list = TRUE] IN
    IF q.back = 0
    THEN [q EXCEPT !.nodes = n1, !.length = q.length + 1, !.front = e, !.back = e]
    ELSE [q EXCEPT !.nodes = [n1 EXCEPT ![e].prev = q.back, ![q.back].next = e],
                   !.length = q.length + 1, !.back = e]

(* The element Add reuses when the list is full (lru.go:45).  The first     *)
(* definition takes the newest one.                                         *)
VictimBack(q) == q.back

Victim(q) == q.front

(* delete(q.m, e.Value.key) of the reuse path (lru.go:51).  The first       *)
(* definition leaves the map entry of the evicted key.                      *)
MapDeleteKeeps(m, key) == m

MapDelete(m, key) == [m EXCEPT ![key] = 0]

(* LRU.Add (lru.go:35-68): the LRU afterwards and the keys onEvict was      *)
(* called with.                                                             *)
LnAdd(q, key) ==
    IF q.m[key] # 0
    THEN [q |-> MoveToBack(q, q.m[key]), evicts |-> << >>]
    ELSE IF q.length >= LnMaxSize
    THEN LET e == Victim(q)
             old == q.nodes[e].key
             m1 == MapDelete(q.m, old)
             q1 == [q EXCEPT !.m = [m1 EXCEPT ![key] = e], !.nodes[e].key = key]
         IN [q |-> MoveToBack(q1, e), evicts |-> <<old>>]
    ELSE LET e == CHOOSE x \in LnNodes :
                     ~q.nodes[x].list /\ \A y \in LnNodes : ~q.nodes[y].list => x <= y
             q1 == [q EXCEPT !.nodes[e] = NewElem(key), !.m[key] = e]
         IN [q |-> PushBack(q1, e), evicts |-> << >>]

(* LRU.Get (lru.go:70-77).                                                  *)
LnGet(q, key) == IF q.m[key] = 0 THEN q ELSE MoveToBack(q, q.m[key])

(* LRU.delElem (lru.go:121-129).                                            *)
delElem(q, e) ==
    LET key == q.nodes[e].key
        q1 == PopElem(q, e)
    IN [q1 EXCEPT !.m[key] = 0]

(* LRU.Del (lru.go:79-85).                                                  *)
LnDel(q, key) ==
    IF q.m[key] = 0 THEN [q |-> q, evicts |-> << >>]
    ELSE [q |-> delElem(q, q.m[key]), evicts |-> <<key>>]

(* LRU.PopOldest (lru.go:87-99).                                            *)
LnPopOldest(q) ==
    IF q.front = 0 THEN q
    ELSE LET e == q.front IN [PopElem(q, e) EXCEPT !.m[q.nodes[e].key] = 0]

(* LRU.Clean (lru.go:101-115) from element e on, with a predicate that      *)
(* holds of the keys in gone.                                               *)
RECURSIVE LnCleanFrom(_, _, _, _)
LnCleanFrom(q, e, gone, evicts) ==
    IF e = 0 THEN [q |-> q, evicts |-> evicts]
    ELSE LET next == q.nodes[e].next
             key == q.nodes[e].key
         IN IF key \in gone
            THEN LnCleanFrom(delElem(q, e), next, gone, Append(evicts, key))
            ELSE LnCleanFrom(q, next, gone, evicts)

LnPresent(q) == {k \in LnKeys : q.m[k] # 0}

NoOp == [op |-> "none", key |-> 0, present |-> FALSE, full |-> FALSE, oldest |-> 0,
         evicts |-> << >>]

LnInit ==
    /\ lq = NewLRU
    /\ lnRecency = << >>
    /\ lnLast = NoOp

(* ConcurrentLRU.Add (concurrent_lru.go:88-92): LRU.Add under the lock.     *)
LnAddCall(key) ==
    /\ lq' = LnAdd(lq, key).q
    /\ lnLast' = [op |-> "Add", key |-> key, present |-> lq.m[key] # 0,
                  full |-> lq.length >= LnMaxSize,
                  oldest |-> IF lnRecency = << >> THEN 0 ELSE Head(lnRecency),
                  evicts |-> LnAdd(lq, key).evicts]
    /\ lnRecency' = IF lq.m[key] # 0 THEN Append(Without(lnRecency, key), key)
                    ELSE IF Len(lnRecency) >= LnMaxSize THEN Append(Tail(lnRecency), key)
                    ELSE Append(lnRecency, key)
    /\ UNCHANGED notLn

(* ConcurrentLRU.Get (concurrent_lru.go:100-105).                           *)
LnGetCall(key) ==
    /\ lq' = LnGet(lq, key)
    /\ lnLast' = [NoOp EXCEPT !.op = "Get", !.key = key, !.present = lq.m[key] # 0]
    /\ lnRecency' = IF lq.m[key] # 0 THEN Append(Without(lnRecency, key), key) ELSE lnRecency
    /\ UNCHANGED notLn

(* ConcurrentLRU.Del (concurrent_lru.go:94-98).                             *)
LnDelCall(key) ==
    /\ lq' = LnDel(lq, key).q
    /\ lnLast' = [NoOp EXCEPT !.op = "Del", !.key = key, !.present = lq.m[key] # 0,
                              !.evicts = LnDel(lq, key).evicts]
    /\ lnRecency' = Without(lnRecency, key)
    /\ UNCHANGED notLn

(* LRU.PopOldest.                                                           *)
LnPopOldestCall ==
    /\ lq' = LnPopOldest(lq)
    /\ lnLast' = [NoOp EXCEPT !.op = "PopOldest"]
    /\ lnRecency' = IF lnRecency = << >> THEN << >> ELSE Tail(lnRecency)
    /\ UNCHANGED notLn

(* ConcurrentLRU.Clean (concurrent_lru.go:107-112).                         *)
LnCleanCall ==
    /\ \E gone \in SUBSET LnPresent(lq) :
          /\ gone # {}
          /\ lq' = LnCleanFrom(lq, lq.front, gone, << >>).q
          /\ lnLast' = [NoOp EXCEPT !.op = "Clean",
                                    !.evicts = LnCleanFrom(lq, lq.front, gone, << >>).evicts]
          /\ lnRecency' = SelectSeq(lnRecency, LAMBDA k : k \notin gone)
    /\ UNCHANGED notLn

LnNext ==
    \/ \E key \in LnKeys : LnAddCall(key)
    \/ \E key \in LnKeys : LnGetCall(key)
    \/ \E key \in LnKeys : LnDelCall(key)
    \/ LnPopOldestCall
    \/ LnCleanCall

----------------------------------------------------------------------------
(* ExtractTTLOffsets on any byte string, and the TTL rewrite of a cache hit *)
(* with the offsets it recorded.                                            *)

MaxChunks == 2
MaxCut == 11

(* Header counts: none, some, and more than the body can hold.              *)
ExQdCounts == {0, 1, 2}

(* ANCOUNT and ARCOUNT.                                                     *)
ExRRCounts == {<<0, 0>>, <<2, 1>>, <<9, 0>>}

(* Pieces of a message body, well formed and not: a question with the root  *)
(* name, a record with a compressed name and no data, a record with two     *)
(* bytes of data, a record whose RDLENGTH runs past any buffer, an OPT      *)
(* record, and a label longer than what follows.                            *)
ExChunks ==
    { <<0, 0, 1, 0, 1>>,
      <<192, 12, 0, 1, 0, 1, 0, 0, 0, 60, 0, 0>>,
      <<0, 0, 2, 0, 1, 0, 0, 1, 44, 0, 2, 7, 7>>,
      <<192, 12, 0, 1, 0, 1, 0, 0, 0, 60, 255, 255>>,
      <<0, 0, 41, 4, 208, 0, 0, 0, 0, 0, 0>>,
      <<63, 97>> }

ExBodies ==
    UNION {{Flatten(cs) : cs \in [1..n -> ExChunks]} : n \in 0..MaxChunks}

ExHeader(qd, an, ar) ==
    <<0, 7, 129, 128>> \o PutUint16(qd) \o PutUint16(an) \o PutUint16(0) \o PutUint16(ar)

(* A byte string: a header and a body, with up to MaxCut bytes cut off the  *)
(* end (of the header too when the body is shorter than the cut).           *)
ExWires ==
    { SubSeq(w, 1, Len(w) - k) :
        w \in {ExHeader(qd, rr[1], rr[2]) \o b :
                  qd \in ExQdCounts, rr \in ExRRCounts, b \in ExBodies},
        k \in 0..MaxCut }

(* The Go indexes skipName reads (part_000:51-60).                          *)
RECURSIVE skipNameReads(_, _)
skipNameReads(wire, offset) ==
    IF offset >= Len(wire) THEN {}
    ELSE LET b == wire[offset + 1] IN
         {offset} \cup (IF b = 0 \/ b >= 192 THEN {}
                        ELSE skipNameReads(wire, offset + b + 1))

(* The indexes the question loop reads (part_000:22-24).                    *)
RECURSIVE SkipQuestionsReads(_, _, _, _)
SkipQuestionsReads(wire, offset, i, qdcount) ==
    IF i < qdcount /\ offset < Len(wire)
    THEN skipNameReads(wire, offset)
         \cup SkipQuestionsReads(wire, skipName(wire, offset) + 4, i + 1, qdcount)
    ELSE {}

(* The indexes the record loop reads (part_000:27-46): the name, then       *)
(* wire[offset:offset+2] and wire[offset+8:offset+10] behind the fail-safe. *)
RECURSIVE ScanRRsReads(_, _, _, _)
ScanRRsReads(wire, offset, i, totalRR) ==
    IF ~(i < totalRR /\ offset < Len(wire)) THEN {}
    ELSE LET o == skipName(wire, offset) IN
         skipNameReads(wire, offset)
         \cup (IF o + 10 > Len(wire) THEN {}
               ELSE {o, o + 1, o + 8, o + 9}
                    \cup ScanRRsReads(wire, o + 10 + Uint16(wire, o + 8), i + 1, totalRR))

(* Every index ExtractTTLOffsets reads (part_000:8-48).                     *)
ExtractReads(wire) ==
    IF Len(wire) < 12 THEN {}
    ELSE (4..11)
         \cup SkipQuestionsReads(wire, 12, 0, Uint16(wire, 4))
         \cup ScanRRsReads(wire, SkipQuestions(wire, 12, 0, Uint16(wire, 4)), 0,
                           Uint16(wire, 6) + Uint16(wire, 8) + Uint16(wire, 10))

(* respRaw[off:] and respRaw[off:off+4] with four bytes of respRaw behind   *)
(* off; otherwise Go panics or the slice reaches past len(packet)           *)
(* (cache.go:198, 209, 214).                                                *)
SliceInRange(respRaw, off) == off + 4 <= Len(respRaw)

ExElapsed == 70

(* The fresh branch of Exec (cache.go:206-215) on one field, the uint32 in  *)
(* two 16-bit halves: 1 when oldTTL <= elapsed, oldTTL - elapsed otherwise. *)
SubtractTTLAt(buf, off, elapsed) ==
    LET hi == Uint16(buf, off)
        lo == Uint16(buf, off + 2)
    IN IF hi = 0 /\ lo <= elapsed THEN PutUint16At(PutUint16At(buf, off, 0), off + 2, 1)
       ELSE IF lo >= elapsed THEN PutUint16At(buf, off + 2, lo - elapsed)
       ELSE PutUint16At(PutUint16At(buf, off, hi - 1), off + 2, lo + 65536 - elapsed)

RECURSIVE ExPatchFresh(_, _, _, _)
ExPatchFresh(buf, offsets, n, elapsed) ==
    IF n = 0 THEN buf
    ELSE SubtractTTLAt(ExPatchFresh(buf, offsets, n - 1, elapsed), offsets[n], elapsed)

ExInit ==
    /\ exWire \in ExWires
    /\ exPc = "new"
    /\ exOffsets = Zeros(MaxTTLOffsets)
    /\ exCount = 0
    /\ exRespRaw = NilRaw
    /\ exPanic = FALSE

(* tryStore from cache.go:273-279: the offsets of the bytes and the Store.  *)
ExStore ==
    /\ exPc = "new"
    /\ exOffsets' = ExtractTTLOffsets(exWire).offsets
    /\ exCount' = ExtractTTLOffsets(exWire).count
    /\ exPc' = "stored"
    /\ UNCHANGED <<exWire, exRespRaw, exPanic>>
    /\ UNCHANGED notEx

(* The hit path of Exec (cache.go:177-216): a buffer of len(packet), the    *)
(* copy, the ID, then the lazy or the fresh rewrite at every offset.        *)
ExHit(lazyHit, id) ==
    /\ exPc = "stored"
    /\ Len(exWire) >= 2
    /\ exPc' = "hit"
    /\ LET respRaw == PutUint16At(exWire, 0, id)
       IN IF \A i \in 1..exCount : SliceInRange(respRaw, exOffsets[i])
          THEN /\ exRespRaw' = IF lazyHit
                               THEN PatchLazy(respRaw, exOffsets, exCount, DefaultLazyReplyTTL)
                               ELSE ExPatchFresh(respRaw, exOffsets, exCount, ExElapsed)
               /\ exPanic' = FALSE
          ELSE /\ exRespRaw' = NilRaw
               /\ exPanic' = TRUE
    /\ UNCHANGED <<exWire, exOffsets, exCount>>
    /\ UNCHANGED notEx

ExNext ==
    \/ ExStore
    \/ \E lazyHit \in BOOLEAN, id \in {0, 513} : ExHit(lazyHit, id)

----------------------------------------------------------------------------
(* The pending table of the UDP upstream: claimID, unclaimID, the reader's  *)
(* removePendingAndNotify, handleConnClosed and pendingJanitor.             *)

MaxExchanges == 2
MaxRounds == 2

(* The identifier space: uint16 in the source, two identifiers here; the    *)
(* counter wraps around it as u.rr & 0xffff does.                           *)
IdSpace == 2

Exchanges == 1..MaxExchanges

UdIds == 0..(IdSpace - 1)

ChanCap == 2

NoEntry == [owner |-> 0, expired |-> FALSE]

NoRemoval == [op |-> "none", by |-> 0, removed |-> {}]

(* select { case ch <- data: default: } on a channel of capacity 2.         *)
TrySend(ch, data) == IF Len(ch) < ChanCap THEN Append(ch, data) ELSE ch

(* What a removal takes out of the table: the entry's exchange, where that  *)
(* exchange stands, and whether the entry's deadline had passed.            *)
Removed(id) == [owner |-> udPending[id].owner, pc |-> udPc[udPending[id].owner],
                expired |-> udPending[id].expired]

(* removePendingAndNotify (part_019:262-276): the entry found under id is   *)
(* deleted and data is offered to its channel.                              *)
removePendingAndNotify(id, data) ==
    IF udPending[id].owner = 0
    THEN UNCHANGED <<udPending, udCh>>
    ELSE /\ udPending' = [udPending EXCEPT ![id] = NoEntry]
         /\ udCh' = [udCh EXCEPT ![udPending[id].owner] = TrySend(@, data)]

UdInit ==
    /\ udRr = 0
    /\ udPending = [id \in UdIds |-> NoEntry]
    /\ udPc = [e \in Exchanges |-> "idle"]
    /\ udId = [e \in Exchanges |-> 0]
    /\ udTries = [e \in Exchanges |-> 0]
    /\ udCh = [e \in Exchanges |-> << >>]
    /\ udRounds = [e \in Exchanges |-> 0]
    /\ udLast = NoRemoval

(* ExchangeContext up to the call of claimID (part_019:308-317).            *)
UdExchangeContext(e) ==
    /\ udPc[e] = "idle"
    /\ udRounds[e] < MaxRounds
    /\ udRounds' = [udRounds EXCEPT ![e] = @ + 1]
    /\ udTries' = [udTries EXCEPT ![e] = 0]
    /\ udPc' = [udPc EXCEPT ![e] = "claimID"]
    /\ UNCHANGED <<udRr, udPending, udId, udCh, udLast>>
    /\ UNCHANGED notUd

(* One iteration of claimID's loop (part_019:279-296), or its return with   *)
(* an error once every identifier was tried (part_019:297).                 *)
UdClaimID(e) ==
    /\ udPc[e] = "claimID"
    /\ IF udTries[e] >= IdSpace
       THEN /\ udPc' = [udPc EXCEPT ![e] = "idle"]
            /\ UNCHANGED <<udRr, udPending, udId, udTries, udCh>>
       ELSE LET id == (udRr + 1) % IdSpace IN
            /\ udRr' = id
            /\ IF udPending[id].owner = 0
               THEN /\ udPending' = [udPending EXCEPT ![id] = [owner |-> e, expired |-> FALSE]]
                    /\ udCh' = [udCh EXCEPT ![e] = << >>]
                    /\ udId' = [udId EXCEPT ![e] = id]
                    /\ udPc' = [udPc EXCEPT ![e] = "claimed"]
                    /\ UNCHANGED udTries
               ELSE /\ udTries' = [udTries EXCEPT ![e] = @ + 1]
                    /\ UNCHANGED <<udPending, udCh, udId, udPc>>
    /\ UNCHANGED <<udRounds, udLast>>
    /\ UNCHANGED notUd

(* The write of the query (part_019:319-350): on an error ExchangeContext   *)
(* returns and the deferred unclaimID runs.                                 *)
UdWrite(e, err) ==
    /\ udPc[e] = "claimed"
    /\ udPc' = [udPc EXCEPT ![e] = IF err THEN "return" ELSE "select"]
    /\ UNCHANGED <<udRr, udPending, udId, udTries, udCh, udRounds, udLast>>
    /\ UNCHANGED notUd

(* reader (part_019:207-220): a datagram with this identifier arrived.      *)
UdReader(id) ==
    /\ removePendingAndNotify(id, "raw")
    /\ udLast' = IF udPending[id].owner = 0 THEN [NoRemoval EXCEPT !.op = "reader"]
                 ELSE [op |-> "reader", by |-> 0, removed |-> {Removed(id)}]
    /\ UNCHANGED <<udRr, udPc, udId, udTries, udRounds>>
    /\ UNCHANGED notUd

(* case resp := <-respCh (part_019:353-398): nil is an error; a truncated   *)
(* reply goes to the TCP transport before ExchangeContext returns.          *)
UdSelectResp(e, truncated) ==
    /\ udPc[e] = "select"
    /\ udCh[e] # << >>
    /\ udCh' = [udCh EXCEPT ![e] = Tail(@)]
    /\ udPc' = [udPc EXCEPT ![e] = IF Head(udCh[e]) = "raw" /\ truncated
                                   THEN "tcpTransport" ELSE "return"]
    /\ UNCHANGED <<udRr, udPending, udId, udTries, udRounds, udLast>>
    /\ UNCHANGED notUd

(* case <-ctx.Done() (part_019:399-400).                                    *)
UdSelectDone(e) ==
    /\ udPc[e] = "select"
    /\ udPc' = [udPc EXCEPT ![e] = "return"]
    /\ UNCHANGED <<udRr, udPending, udId, udTries, udCh, udRounds, udLast>>
    /\ UNCHANGED notUd

(* u.tcpTransport.ExchangeContext returns (part_019:381-389).               *)
UdTcpReturn(e) ==
    /\ udPc[e] = "tcpTransport"
    /\ udPc' = [udPc EXCEPT ![e] = "return"]
    /\ UNCHANGED <<udRr, udPending, udId, udTries, udCh, udRounds, udLast>>
    /\ UNCHANGED notUd

(* The deferred unclaimID(id) (part_019:300-306, 318).                      *)
UdUnclaimID(e) ==
    /\ udPc[e] = "return"
    /\ removePendingAndNotify(udId[e], "nil")
    /\ udLast' = [op |-> "unclaimID", by |-> e,
                  removed |-> IF udPending[udId[e]].owner = 0 THEN {}
                              ELSE {Removed(udId[e])}]
    /\ udPc' = [udPc EXCEPT ![e] = "idle"]
    /\ UNCHANGED <<udRr, udId, udTries, udRounds>>
    /\ UNCHANGED notUd

(* pendingTTL after the claim the entry's deadline is in the past.          *)
UdDeadline(id) ==
    /\ udPending[id].owner # 0
    /\ ~udPending[id].expired
    /\ udPending' = [udPending EXCEPT ![id].expired = TRUE]
    /\ UNCHANGED <<udRr, udPc, udId, udTries, udCh, udRounds, udLast>>
    /\ UNCHANGED notUd

(* One pass of pendingJanitor under pendingMu (part_019:419-432): every     *)
(* entry past its deadline is deleted and nil is offered to its channel.    *)
UdPendingJanitor ==
    LET late == {id \in UdIds : udPending[id].owner # 0 /\ udPending[id].expired}
    IN /\ late # {}
       /\ udPending' = [id \in UdIds |-> IF id \in late THEN NoEntry ELSE udPending[id]]
       /\ udCh' = [e \in Exchanges |->
                     IF \E id \in late : udPending[id].owner = e
                     THEN TrySend(udCh[e], "nil") ELSE udCh[e]]
       /\ udLast' = [op |-> "pendingJanitor", by |-> 0, removed |-> {Removed(id) : id \in late}]
       /\ UNCHANGED <<udRr, udPc, udId, udTries, udRounds>>
       /\ UNCHANGED notUd

(* handleConnClosed (part_019:224-260): the table is emptied and nil is     *)
(* offered to every entry's channel.                                        *)
UdHandleConnClosed ==
    LET all == {id \in UdIds : udPending[id].owner # 0}
    IN /\ all # {}
       /\ udPending' = [id \in UdIds |-> NoEntry]
       /\ udCh' = [e \in Exchanges |->
                     IF \E id \in all : udPending[id].owner = e
                     THEN TrySend(udCh[e], "nil") ELSE udCh[e]]
       /\ udLast' = [op |-> "handleConnClosed", by |-> 0, removed |-> {Removed(id) : id \in all}]
       /\ UNCHANGED <<udRr, udPc, udId, udTries, udRounds>>
       /\ UNCHANGED notUd

UdNext ==
    \/ \E e \in Exchanges : UdExchangeContext(e)
    \/ \E e \in Exchanges : UdClaimID(e)
    \/ \E e \in Exchanges, err \in BOOLEAN : UdWrite(e, err)
    \/ \E id \in UdIds : UdReader(id)
    \/ \E e \in Exchanges, truncated \in BOOLEAN : UdSelectResp(e, truncated)
    \/ \E e \in Exchanges : UdSelectDone(e)
    \/ \E e \in Exchanges : UdTcpReturn(e)
    \/ \E e \in Exchanges : UdUnclaimID(e)
    \/ \E id \in UdIds : UdDeadline(id)
    \/ UdPendingJanitor
    \/ UdHandleConnClosed

----------------------------------------------------------------------------
(* A subsystem that takes no part in a specification stays as constructed.  *)
RaceIdle == RaceInit /\ upstreams = 0

ServeIdle == ServeInit /\ ~hasRawHandler /\ ~hasCharTable /\ ~opts.RecursionAvailable /\ ~opts.BlockNoDot

CtxIdle == CtxInit

StoreIdle == StoreInit /\ storeCopies

LruIdle == LruInit /\ cacheSize = 0 /\ \A k \in LruKeys : shardOf[k] = 0

KvIdle == KvInit

KeyIdle ==
    /\ keyOneArg = FALSE
    /\ keySalt = 0
    /\ keyEverything = FALSE
    /\ keyQ1 = KeyQuery(0, << >>, << >>)
    /\ keyQ2 = KeyQuery(0, << >>, << >>)
    /\ keyOut = << >>

RfIdle == RfInit /\ ~copyInTask

TsIdle == tsReply = NilMsg /\ tsDone = FALSE

CnIdle == CnInit /\ cnMatcher = "absent" /\ cnThen = 0 /\ cnElse = 0 /\ ~cnNext

PhIdle == PhInit

ScIdle == ScInit

LnIdle == LnInit

ExIdle == exWire = << >> /\ exPc = "new" /\ exOffsets = Zeros(MaxTTLOffsets) /\ exCount = 0 /\ exRespRaw = NilRaw /\ exPanic = FALSE

UdIdle == UdInit

InitRace == ServeIdle /\ CacheIdle /\ CtxIdle /\ StoreIdle /\ LruIdle /\ KvIdle /\ KeyIdle /\ RfIdle /\ TsIdle /\ CnIdle /\ PhIdle /\ ScIdle /\ LnIdle /\ ExIdle /\ UdIdle /\ RaceInit

InitServe == RaceIdle /\ CacheIdle /\ CtxIdle /\ StoreIdle /\ LruIdle /\ KvIdle /\ KeyIdle /\ RfIdle /\ TsIdle /\ CnIdle /\ PhIdle /\ ScIdle /\ LnIdle /\ ExIdle /\ UdIdle /\ ServeInit

InitCache == RaceIdle /\ ServeIdle /\ CtxIdle /\ StoreIdle /\ LruIdle /\ KvIdle /\ KeyIdle /\ RfIdle /\ TsIdle /\ CnIdle /\ PhIdle /\ ScIdle /\ LnIdle /\ ExIdle /\ UdIdle /\ CacheInit

InitCtx == RaceIdle /\ ServeIdle /\ CacheIdle /\ StoreIdle /\ LruIdle /\ KvIdle /\ KeyIdle /\ RfIdle /\ TsIdle /\ CnIdle /\ PhIdle /\ ScIdle /\ LnIdle /\ ExIdle /\ UdIdle /\ CtxInit

InitStore == RaceIdle /\ ServeIdle /\ CacheIdle /\ CtxIdle /\ LruIdle /\ KvIdle /\ KeyIdle /\ RfIdle /\ TsIdle /\ CnIdle /\ PhIdle /\ ScIdle /\ LnIdle /\ ExIdle /\ UdIdle /\ StoreInit

InitKv == RaceIdle /\ ServeIdle /\ CacheIdle /\ CtxIdle /\ StoreIdle /\ LruIdle /\ KeyIdle /\ RfIdle /\ TsIdle /\ CnIdle /\ PhIdle /\ ScIdle /\ LnIdle /\ ExIdle /\ UdIdle /\ KvInit

InitKey == RaceIdle /\ ServeIdle /\ CacheIdle /\ CtxIdle /\ StoreIdle /\ LruIdle /\ KvIdle /\ RfIdle /\ TsIdle /\ CnIdle /\ PhIdle /\ ScIdle /\ LnIdle /\ ExIdle /\ UdIdle /\ KeyInit

InitRf == RaceIdle /\ ServeIdle /\ CacheIdle /\ CtxIdle /\ StoreIdle /\ LruIdle /\ KvIdle /\ KeyIdle /\ TsIdle /\ CnIdle /\ PhIdle /\ ScIdle /\ LnIdle /\ ExIdle /\ UdIdle /\ RfInit

InitLru == RaceIdle /\ ServeIdle /\ CacheIdle /\ CtxIdle /\ StoreIdle /\ KvIdle /\ KeyIdle /\ RfIdle /\ TsIdle /\ CnIdle /\ PhIdle /\ ScIdle /\ LnIdle /\ ExIdle /\ UdIdle /\ LruInit

InitTs == RaceIdle /\ ServeIdle /\ CtxIdle /\ StoreIdle /\ LruIdle /\ KvIdle /\ KeyIdle /\ RfIdle /\ CnIdle /\ PhIdle /\ ScIdle /\ LnIdle /\ ExIdle /\ UdIdle /\ TsInit

InitCn == RaceIdle /\ ServeIdle /\ CacheIdle /\ CtxIdle /\ StoreIdle /\ LruIdle /\ KvIdle /\ KeyIdle /\ RfIdle /\ TsIdle /\ PhIdle /\ ScIdle /\ LnIdle /\ ExIdle /\ UdIdle /\ CnInit

InitPh == RaceIdle /\ ServeIdle /\ CacheIdle /\ CtxIdle /\ StoreIdle /\ LruIdle /\ KvIdle /\ KeyIdle /\ RfIdle /\ TsIdle /\ CnIdle /\ ScIdle /\ LnIdle /\ ExIdle /\ UdIdle /\ PhInit

InitSc == RaceIdle /\ ServeIdle /\ CacheIdle /\ CtxIdle /\ StoreIdle /\ LruIdle /\ KvIdle /\ KeyIdle /\ RfIdle /\ TsIdle /\ CnIdle /\ PhIdle /\ LnIdle /\ ExIdle /\ UdIdle /\ ScInit

InitLn == RaceIdle /\ ServeIdle /\ CacheIdle /\ CtxIdle /\ StoreIdle /\ LruIdle /\ KvIdle /\ KeyIdle /\ RfIdle /\ TsIdle /\ CnIdle /\ PhIdle /\ ScIdle /\ ExIdle /\ UdIdle /\ LnInit

InitEx == RaceIdle /\ ServeIdle /\ CacheIdle /\ CtxIdle /\ StoreIdle /\ LruIdle /\ KvIdle /\ KeyIdle /\ RfIdle /\ TsIdle /\ CnIdle /\ PhIdle /\ ScIdle /\ LnIdle /\ UdIdle /\ ExInit

InitUd == RaceIdle /\ ServeIdle /\ CacheIdle /\ CtxIdle /\ StoreIdle /\ LruIdle /\ KvIdle /\ KeyIdle /\ RfIdle /\ TsIdle /\ CnIdle /\ PhIdle /\ ScIdle /\ LnIdle /\ ExIdle /\ UdInit

SpecRace == InitRace /\ [][RaceNext]_vars

SpecServe == InitServe /\ [][ServeNext]_vars

SpecCache == InitCache /\ [][CacheNext]_vars

SpecCtx == InitCtx /\ [][CtxNext]_vars

SpecStore == InitStore /\ [][StoreNext]_vars

SpecLru == InitLru /\ [][LruNext]_vars

SpecKv == InitKv /\ [][KvNext]_vars

SpecKey == InitKey /\ [][KeyNext]_vars

SpecRf == InitRf /\ [][RfNext]_vars

SpecTs == InitTs /\ [][TsNext]_vars

SpecCn == InitCn /\ [][CnNext]_vars

SpecPh == InitPh /\ [][PhNext]_vars

SpecSc == InitSc /\ [][ScNext]_vars

SpecLn == InitLn /\ [][LnNext]_vars

SpecEx == InitEx /\ [][ExNext]_vars

SpecUd == InitUd /\ [][UdNext]_vars

----------------------------------------------------------------------------
(***************************************************************************)
(* Properties.                                                             *)
(***************************************************************************)
Max(a, b) == IF a > b THEN a ELSE b

Min(a, b) == IF a < b THEN a ELSE b

(* The non-OPT records of a message, Answer then Authority then Additional. *)
TTLRecords(m) == SelectSeq(m.Answer \o m.Ns \o m.Extra, IsNotOPT)

(* The TTLs a client reads from wire bytes, by a full parse.                *)
ServedTTLs(wire) ==
    LET rrs == TTLRecords(Unpack(wire).msg) IN [j \in 1..Len(rrs) |-> rrs[j].Ttl]

(* The step in which backend.Get returns for the query of client i.         *)
GetStep(i) == cq[i].pc = "idle" /\ cq'[i].pc \in {"hit", "next"} /\ cq'[i].key # << >>

(* C1: a response stored on the miss path with minimal TTL T is a fresh hit *)
(* (ok, not lazy) for every same-key query whose Get runs less than T       *)
(* seconds of wall clock after the store, the cache being open.             *)
C1_FreshUntilTTL ==
    [][\A i \in QueryIndexes :
          (/\ GetStep(i)
           /\ ~closed
           /\ lru[cq'[i].key].present
           /\ lru[cq'[i].key].path = "miss"
           /\ GetMinimalTTL(lru[cq'[i].key].r) > 0
           /\ Unix - lru[cq'[i].key].storedTime < GetMinimalTTL(lru[cq'[i].key].r))
          => (cq'[i].ok /\ ~cq'[i].lazyHit)]_vars

C1_FreshHitSeen ==
    \E i \in QueryIndexes :
        /\ cq[i].pc = "hit" /\ ~cq[i].lazyHit /\ cq[i].e.path = "miss"
        /\ GetMinimalTTL(cq[i].e.r) > 0

(* C2: when the plugin graph finished with a raw response attached, the     *)
(* bytes written to the client are exactly those raw bytes, on every        *)
(* listener.                                                                *)
C2_RawWrittenVerbatim ==
    (spc = "done" /\ graphRan /\ graphRaw # NilRaw) => written = graphRaw

C2_RawWrittenSeen == spc = "done" /\ graphRan /\ graphRaw # NilRaw /\ written = graphRaw

(* C3: after a fresh hit k seconds after storage every non-OPT record of    *)
(* the reply, in Answer, Authority and Additional, has the TTL              *)
(* max(1, original TTL - k).                                                *)
C3_AllTTLsSubtracted ==
    (last.pc = "done" /\ last.ok /\ ~last.lazyHit)
    => LET k == Unix - last.e.storedTime
           orig == TTLRecords(last.e.r)
       IN ServedTTLs(last.rawR) = [j \in 1..Len(orig) |-> Max(1, orig[j].Ttl - k)]

C3_FreshHitAged ==
    /\ last.pc = "done" /\ last.ok /\ ~last.lazyHit
    /\ Unix - last.e.storedTime = 1
    /\ Len(TTLRecords(last.e.r)) > MaxTTLOffsets

(* C4: a Get of an open cache with fresh-expire < now <= lazy-expire is a   *)
(* lazy hit, and the reply of a lazy hit has every rewritten TTL (the first *)
(* 8 non-OPT records) equal to the configured lazy reply TTL, 5 when none   *)
(* is configured.                                                           *)
C4_LazyHitTTL ==
    /\ [][\A i \in QueryIndexes :
             (/\ GetStep(i)
              /\ ~closed
              /\ lru[cq'[i].key].present
              /\ lru[cq'[i].key].expire < UnixNano
              /\ UnixNano <= lru[cq'[i].key].lazyExpire)
             => (cq'[i].ok /\ cq'[i].lazyHit)]_vars
    /\ []((last.pc = "done" /\ last.ok /\ last.lazyHit)
          => LET served == ServedTTLs(last.rawR)
                 want == IF args.LazyCacheReplyTTL = 0 THEN 5 ELSE args.LazyCacheReplyTTL
             IN /\ Len(served) = Len(TTLRecords(last.e.r))
                /\ \A j \in 1..Min(Len(served), MaxTTLOffsets) : served[j] = want)

C4_LazyHitServed ==
    /\ last.pc = "done" /\ last.ok /\ last.lazyHit
    /\ last.e.ttlCount >= 1
    /\ args.LazyCacheReplyTTL = 0

(* C5 as stated: the queries that observed a lazy hit for a key before any  *)
(* of them triggered a refresh start at most one chain execution among      *)
(* them.                                                                    *)
C5_OnceInTotal == \A k \in CacheKeys : ~dupRun[k]

(* C5: a lazy trigger for a key that arrives while a refresh for the key is *)
(* in the single-flight group starts no chain execution; no step starts one *)
(* for a key whose call is still in the group.                              *)
C5_NoStartWhileInFlight ==
    [][\A k \in CacheKeys : sfCalls[k] => lazyRuns'[k] = lazyRuns[k]]_vars

C5_TriggerJoined ==
    /\ last.pc = "done" /\ last.lazyHit
    /\ sfCalls[last.key]
    /\ last.gen >= 1
    /\ lazyRuns[last.key] = last.gen

(* C6: at any instant at most one refresh goroutine per key is executing    *)
(* the downstream chain.                                                    *)
C6_OneRefreshInFlight == \A k \in CacheKeys : nExec[k] <= 1

C6_RefreshInFlight ==
    /\ last.pc = "done" /\ last.lazyHit
    /\ nExec[last.key] = 1
    /\ lazyRuns[last.key] = last.gen
    /\ last.gen = 1

(* The rcode of an error-free result and its rank: NXDOMAIN 3, NOERROR      *)
(* without answers 2, anything else 1, SERVFAIL 0.                          *)
RcodeOf(res) == IF ~res.r.nil THEN res.r.Rcode ELSE res.raw[4] % 16

Rank(res) ==
    IF RcodeOf(res) = RcodeNameError THEN 3
    ELSE IF RcodeOf(res) = RcodeSuccess THEN 2
    ELSE IF RcodeOf(res) = RcodeServerFailure THEN 0
    ELSE 1

(* C7: with two or more upstreams and the caller's context not cancelled,   *)
(* if an upstream has returned NOERROR with an answer, ExchangeParallel     *)
(* returns a NOERROR response with answers.                                 *)
C7_AnswerWins ==
    (rpc = "done" /\ upstreams >= 2 /\ ~ctxDone /\ answered) => HasAnswers(ret)

C7_AnswerAfterFallback ==
    /\ rpc = "done" /\ upstreams >= 2 /\ ~ctxDone
    /\ HasAnswers(ret)
    /\ \E res \in received : res.err = "nil" /\ ~HasAnswers(res)

(* C8: when no upstream returned NOERROR with answers, the response         *)
(* returned has the highest rank among the error-free responses received.   *)
C8_BestFallbackReturned ==
    (/\ rpc = "done" /\ upstreams >= 2
     /\ ~answered
     /\ \E res \in received : res.err = "nil")
    => /\ ret.err = "nil"
       /\ \A res \in received : res.err = "nil" => Rank(ret) >= Rank(res)

C8_BestOfTwoReturned ==
    /\ rpc = "done" /\ upstreams >= 2 /\ ret.err = "nil" /\ ~HasAnswers(ret)
    /\ \E res \in received : res.err = "nil" /\ Rank(res) < Rank(ret)

(* C9: ExchangeParallel returns an error only when no error-free response   *)
(* was delivered to it, parsed or raw-only.                                 *)
C9_ErrorOnlyWhenAllFailed ==
    (rpc = "done" /\ upstreams >= 2 /\ ret.err # "nil")
    => \A res \in received : res.err # "nil"

C9_FallbackReturned ==
    /\ rpc = "done" /\ upstreams >= 2 /\ ret.err = "nil" /\ ~HasAnswers(ret)
    /\ \E res \in received : res.err # "nil"

(* The gatekeeper's conditions on a query.                                  *)
IsLower(name) == \A j \in 1..Len(name) : ~(name[j] >= 65 /\ name[j] <= 90)

PassedGatekeeper(q) ==
    /\ Len(q.Question) = 1
    /\ q.Opcode = OpcodeQuery
    /\ q.Question[1].Qtype # TypeANY
    /\ q.Question[1].Qclass = ClassINET
    /\ IsLower(q.Question[1].Name)
    /\ ~q.Response /\ ~q.Authoritative /\ ~q.Truncated /\ ~q.RecursionAvailable /\ ~q.Zero
    /\ q.Answer = << >> /\ q.Ns = << >>

(* C10: the query the graph entry is executed for has passed the            *)
(* gatekeeper, whichever listener took it and whether it came through       *)
(* ServeDNS or ServeDNSRaw.                                                 *)
C10_GraphOnlyAfterGate == graphRan => PassedGatekeeper(graphQ)

C10_GraphRanAfterGate ==
    graphRan /\ PassedGatekeeper(graphQ) /\ req.Question[1].Name # NameAB /\ protocol = ProtocolQUIC

(* The first gatekeeper rule, in rule order, that query q violates.         *)
FirstViolatedRule(q) ==
    IF Len(q.Question) # 1 THEN "count"
    ELSE IF q.Opcode # 0 THEN "opcode"
    ELSE IF q.Question[1].Qtype = TypeANY THEN "any"
    ELSE IF \/ (opts.BlockAAAA /\ q.Question[1].Qtype = TypeAAAA)
            \/ (opts.BlockPTR /\ q.Question[1].Qtype = TypePTR)
            \/ (opts.BlockHTTPS /\ q.Question[1].Qtype = TypeHTTPS) THEN "qtype"
    ELSE IF \/ ~AllValidChars(q.Question[1].Name)
            \/ (opts.BlockNoDot /\ ~HasDot(q.Question[1].Name)) THEN "name"
    ELSE IF q.Question[1].Qclass # ClassINET THEN "qclass"
    ELSE IF HeaderFlagsSet(q) THEN "flags"
    ELSE "none"

(* The reply of a rule: the rcode, and the HINFO record for ANY.            *)
IsReplyOfRule(r, rule) ==
    /\ ~r.nil
    /\ r.Response
    /\ r.Rcode = (CASE rule \in {"count", "opcode", "qclass", "flags"} -> RcodeRefused
                   [] rule = "name" -> RcodeNameError
                   [] OTHER -> RcodeSuccess)
    /\ IF rule = "any"
       THEN Len(r.Answer) = 1 /\ r.Answer[1].Rrtype = TypeHINFO /\ r.Answer[1].Ttl = 8482
       ELSE r.Answer = << >>

(* The handler has returned for the query the listener took.                *)
HandlerReturned == spc \in {"write", "done"} /\ ~connClosed

(* C11: a query that violates a gatekeeper rule gets the reply of the first *)
(* rule it violates, in rule order, and the plugin graph is not executed    *)
(* for it.                                                                  *)
C11_FirstViolatedRuleReply ==
    (HandlerReturned /\ FirstViolatedRule(req) # "none")
    => (~graphRan /\ IsReplyOfRule(handlerR, FirstViolatedRule(req)))

C11_AnyBeforeQclass ==
    /\ HandlerReturned /\ ~graphRan
    /\ FirstViolatedRule(req) = "any"
    /\ req.Question[1].Qclass # ClassINET /\ HeaderFlagsSet(req)
    /\ IsReplyOfRule(handlerR, "any")

(* C12: a query that meets the rules before name hygiene and whose question *)
(* name has a character outside [A-Za-z0-9._-] is answered NXDOMAIN and the *)
(* plugin graph is not executed for it.                                     *)
C12_BadCharNXDomain ==
    (/\ HandlerReturned
     /\ FirstViolatedRule(req) = "name"
     /\ ~AllValidChars(req.Question[1].Name))
    => (~graphRan /\ ~handlerR.nil /\ handlerR.Rcode = RcodeNameError)

C12_BadCharRejected ==
    /\ HandlerReturned /\ ~graphRan
    /\ FirstViolatedRule(req) = "name"
    /\ ~AllValidChars(req.Question[1].Name) /\ HasDot(req.Question[1].Name)
    /\ ~handlerR.nil /\ handlerR.Rcode = RcodeNameError

GraphLeftNoReply ==
    /\ graphRan
    /\ graphRaw = NilRaw
    /\ IF UsesRawHandler THEN lqCtx.r.nil ELSE hqCtx.r.nil

(* C14: when the graph ends without a reply in the query context, the entry *)
(* handler's reply is a synthesized one: SERVFAIL when the graph returned   *)
(* an error, REFUSED when it returned none.                                 *)
C14_EmptyGraphSynthesized ==
    (HandlerReturned /\ GraphLeftNoReply)
    => /\ ~handlerR.nil
       /\ handlerR.Response
       /\ handlerR.Rcode = (IF graphErr # "nil" THEN RcodeServerFailure ELSE RcodeRefused)

C14_ServFailSynthesized ==
    /\ spc = "done" /\ GraphLeftNoReply
    /\ graphErr # "nil"
    /\ ~handlerR.nil /\ handlerR.Rcode = RcodeServerFailure
    /\ written # << >> /\ written[4] % 16 = RcodeServerFailure

(* C15 as stated: Get returns ok = false when the key is absent or now is   *)
(* past lazy-expire, and otherwise ok = true with lazy-hit exactly when     *)
(* fresh-expire < now.                                                      *)
C15_GetContract ==
    [][\A i \in QueryIndexes :
          GetStep(i)
          => LET e == lru[cq'[i].key] IN
             IF ~e.present \/ UnixNano > e.lazyExpire
             THEN ~cq'[i].ok
             ELSE cq'[i].ok /\ (cq'[i].lazyHit <=> e.expire < UnixNano)]_vars

(* C15: Get of a closed cache returns ok = false for every key; Get of an   *)
(* open cache returns ok = false when the key is absent or now is past      *)
(* lazy-expire, and otherwise ok = true with lazy-hit exactly when          *)
(* fresh-expire < now <= lazy-expire.                                       *)
C15_GetContractOpen ==
    [][\A i \in QueryIndexes :
          GetStep(i)
          => LET e == lru[cq'[i].key] IN
             IF closed \/ ~e.present \/ UnixNano > e.lazyExpire
             THEN ~cq'[i].ok /\ ~cq'[i].lazyHit
             ELSE /\ cq'[i].ok
                  /\ cq'[i].lazyHit <=> (e.expire < UnixNano /\ UnixNano <= e.lazyExpire)]_vars

C15_MissPastLazyExpire ==
    \E i \in QueryIndexes :
        /\ cq[i].pc = "next" /\ cq[i].key # << >> /\ ~cq[i].ok
        /\ ~closed
        /\ lru[cq[i].key].present
        /\ lru[cq[i].key].path = "lazy"
        /\ UnixNano > lru[cq[i].key].lazyExpire

(* C16: at every point of a request at most one of the parsed and the raw   *)
(* response of a query context is non-empty.                                *)
C16_AtMostOneSlot ==
    /\ lqCtx.r.nil \/ lqCtx.rawR = NilRaw
    /\ hqCtx.r.nil \/ hqCtx.rawR = NilRaw

C16_RawThenParsedSet ==
    /\ spc = "write" /\ UsesRawHandler
    /\ graphRaw # NilRaw
    /\ ~lqCtx.r.nil /\ lqCtx.r.Rcode = RcodeSuccess /\ lqCtx.r.Answer = << >>

(* C17: the release function of the pooled buffer attached with             *)
(* SetRawResponse runs at most once, however often ReleaseRawR is called    *)
(* and on however many copies of the context.                               *)
C17_ReleasedAtMostOnce == releaseFuncCalls <= 1

C17_SecondReleaseIgnored ==
    /\ releaseRawRCalls >= 2
    /\ releaseFuncCalls = 1
    /\ \A i \in ContextIndexes : cx[i].live => i = 1

(* C18: when a request has left the server (reply written or not, handler   *)
(* error or not), the pooled buffer the cache plugin attached to its query  *)
(* context has been released.                                               *)
C18_BufferReleasedAtExit ==
    (spc = "done" /\ graphRan /\ graphRaw # NilRaw) => released = 1

C18_ReleasedAfterUnpack ==
    /\ spc = "done" /\ graphRan /\ graphRaw # NilRaw
    /\ protocol = ProtocolQUIC /\ hasRawHandler
    /\ released = 1
    /\ written # << >>

(* C19: the bytes a cache entry holds are, at every later time, the bytes   *)
(* Store was given: neither a write of the caller to the slice it stored    *)
(* nor the patching of a hit changes them.                                  *)
C19_EntryBytesFrozen == elemPacket # "nil" => ElemBytes = storedBytes

C19_CopiesDiverged ==
    /\ elemPacket = "buf"
    /\ ElemBytes = storedBytes
    /\ inPacket # storedBytes
    /\ hitRespRaw # << >> /\ hitRespRaw # storedBytes
    /\ Uint16(hitRespRaw, 0) = 4661

(* C20: after any sequence of Store calls Len() is at most the number of    *)
(* shards times the per-shard capacity, the larger of the floor and         *)
(* size / shard count.                                                      *)
C20_LenWithinCapacity ==
    ShardedLen <= shardSize * Max(MinSizePerShard, cacheSize \div shardSize)

C20_FullShardReused ==
    /\ evicted
    /\ \E i \in ShardIndexes : Len(shardList[i]) = SizePerShard(cacheSize)
    /\ Cardinality({k \in LruKeys : shardOf[k] = 0}) > SizePerShard(cacheSize)
    /\ ShardedLen < MaxKeys

(* C21: a Get of a key returns the value of the last Store to that key in   *)
(* the order in which the Stores took the shard's lock, unless the key was  *)
(* evicted or swept since.                                                  *)
C21_GetSeesLastStore ==
    \A k \in KvKeys :
        (kvLast[k].v # 0 /\ ~kvLast[k].gone) => KvGetValue(k) = kvLast[k].v

(* C21 as amended: the same on a cache that is not closed.                  *)
C21_GetSeesLastStoreOpen ==
    ~kvClosed =>
        \A k \in KvKeys :
            (kvLast[k].v # 0 /\ ~kvLast[k].gone) => KvGetValue(k) = kvLast[k].v

C21_SecondStoreSeen ==
    /\ ~kvClosed
    /\ \E k \in KvKeys :
          /\ kvLast[k].v = 1
          /\ kvLast[k].over
          /\ ~kvLast[k].gone
          /\ KvGetValue(k) = 1
          /\ \A c \in Callers : kvCall[c] = 0
    /\ \E k \in KvKeys : kvLast[k].gone

(* C22: a sweep of the cleaner removes every entry whose lazy-expire has    *)
(* passed and no entry whose lazy-expire is still in the future (the stamps *)
(* of tryStore are seconds since the epoch).                                *)
C22_SweepRemovesOnlyExpired ==
    [][\A k \in CacheKeys :
          /\ (lru[k].present /\ ~lru'[k].present) => lru[k].lazyExpire <= Unix
          /\ (lru[k].present /\ ~lru'[k].present) =>
                \A j \in CacheKeys :
                    (lru[j].present /\ lru[j].lazyExpire <= Unix) => ~lru'[j].present]_vars

C22_SweepDueOnFreshEntry ==
    /\ ~closed
    /\ last.pc = "idle"
    /\ \E k \in CacheKeys :
          /\ lru[k].present
          /\ lru[k].lazyExpire > Unix + 1
          /\ lru[k].lazyExpire <= UnixNano

(* C23: every entry of the cache was packed from a response that is not     *)
(* truncated, has rcode NOERROR or NXDOMAIN and has no answers with a       *)
(* minimal TTL of 0; a step that offers any other response leaves every     *)
(* entry as it was.                                                         *)
C23_OnlyCacheableStored ==
    \A k \in CacheKeys :
        lru[k].present =>
            /\ ~lru[k].r.nil
            /\ ~lru[k].r.Truncated
            /\ lru[k].r.Rcode \in {RcodeSuccess, RcodeNameError}
            /\ ~(Len(lru[k].r.Answer) > 0 /\ GetMinimalTTL(lru[k].r) = 0)

C23_EmptyReplyStored ==
    \E k \in CacheKeys :
        /\ lru[k].present
        /\ Len(lru[k].r.Answer) = 0
        /\ GetMinimalTTL(lru[k].r) = 0
        /\ lru[k].path = "lazy"

(* C24: for a query read from a DoQ stream with an id other than 0 the      *)
(* connection is closed with an error and the handler is never invoked:     *)
(* the request is over with nothing dispatched, executed or written.        *)
C24_QuicNonZeroIdClosed ==
    (protocol = ProtocolQUIC /\ ~req.nil /\ req.Id # 0) =>
        /\ connClosed
        /\ spc = "done"
        /\ ~graphRan
        /\ handlerR.nil
        /\ written = << >>

C24_QuicClosedOnId ==
    /\ protocol = ProtocolQUIC
    /\ req.Id # 0
    /\ Len(req.Question) = 1
    /\ connClosed

(* C25: two queries that differ only in the id and in EDNS options other    *)
(* than Client Subnet get the same cache key, and the derivation fails for  *)
(* neither.                                                                 *)
C25_SameKeyUpToIdAndOptions ==
    keyOut # << >> =>
        /\ ~keyOut[1].failed
        /\ ~keyOut[2].failed
        /\ keyOut[1].key = keyOut[2].key

C25_PaddingBeforeSubnetKeyed ==
    /\ keyOut # << >>
    /\ keyQ1.Id # keyQ2.Id
    /\ Len(keyQ1.Question) = 1
    /\ Len(keyQ1.Extra) = 1
    /\ Len(keyQ1.Extra[1].Option) = 1
    /\ IsEcs(keyQ1.Extra[1].Option[1])
    /\ Len(keyQ2.Extra[1].Option) = 2
    /\ ~IsEcs(keyQ2.Extra[1].Option[1])
    /\ keyOneArg

(* C26: once a refresh has stored its response, a same-key query whose Get  *)
(* runs within the TTL of that response is a fresh hit (ok, not lazy), the  *)
(* cache being open.                                                        *)
C26_FreshAfterRefresh ==
    [][\A i \in QueryIndexes :
          (/\ GetStep(i)
           /\ ~closed
           /\ lru[cq'[i].key].present
           /\ lru[cq'[i].key].path = "lazy"
           /\ Unix - lru[cq'[i].key].storedTime < StoreTTL(lru[cq'[i].key].r))
          => (cq'[i].ok /\ ~cq'[i].lazyHit /\ cq'[i].e = lru[cq'[i].key])]_vars

C26_RefreshedEntryHit ==
    \E i \in QueryIndexes :
        /\ cq[i].pc = "hit"
        /\ ~cq[i].lazyHit
        /\ cq[i].e.path = "lazy"
        /\ cq[i].e = lru[cq[i].key]

(* C27: when ExchangeParallel has returned a perfect success, the context   *)
(* of every upstream exchange that has not handed over its result is        *)
(* cancelled.                                                               *)
C27_PendingCancelledOnSuccess ==
    (rpc = "done" /\ ret.err = "nil" /\ IsPerfect(ret)) =>
        \A u \in 1..upstreams :
            task[u].st \in {"running", "returned"} => taskCtxDone

C27_ReturnedWhilePeerRuns ==
    /\ rpc = "done"
    /\ ret.err = "nil"
    /\ IsPerfect(ret)
    /\ ~ctxDone
    /\ \E u \in 1..upstreams : task[u].st = "running"
    /\ \A u \in 1..upstreams : task[u].st # "returned"

(* C28: the context a lazy refresh works on is copied before the refresh    *)
(* task runs: the task never reads the request's query context while the    *)
(* hit path still writes the client response into it, and the refresh      *)
(* never hands tryStore a response the request path placed in the context. *)
C28_RefreshIsolated ==
    /\ ~copyRaced
    /\ ~refreshStored.own

(* C28 witness: the refresh stored the placeholder response    *)
(* the hit path had set on the request's context.                           *)
C28_PlaceholderStored ==
    /\ taskPc = "done"
    /\ refreshStored.own
    /\ refreshStored.r = SetReply(RefreshQuery)

(* C29: the chain of a lazy refresh runs under a context of its own with a  *)
(* 5 second timeout: while the chain runs the context is done exactly when  *)
(* 5 seconds have passed, whatever happened to the request's context, the   *)
(* chain ends with the context's error only after those 5 seconds, and the  *)
(* context is cancelled when the refresh is over.                           *)
C29_RefreshOwnTimeout ==
    /\ taskPc = "chain" => (BgCtxDone <=> bgElapsed >= RefreshTimeout)
    /\ refreshErr = "ctx" => bgElapsed >= RefreshTimeout
    /\ taskPc = "done" => BgCtxDone

(* C29 witness: the request's context was cancelled while the chain of the  *)
(* refresh went on; the chain ended at the deadline of its own context.     *)
C29_EndedAtOwnDeadline ==
    /\ reqDone
    /\ taskPc = "done"
    /\ refreshErr = "ctx"
    /\ bgElapsed = RefreshTimeout

(* A refresh of the key has ended and the entry the miss path stored is     *)
(* still the one in the cache.                                              *)
StaleKept(key) ==
    /\ lru[key].present
    /\ lru[key].path = "miss"
    /\ lazyRuns[key] > 0
    /\ nExec[key] = 0

(* C30: a lazy refresh that ends with an error, without a response or with  *)
(* a response tryStore rejects leaves the entry of its key as it is; the    *)
(* entry then stays in the cache, the same (bytes, stored time, expire,     *)
(* lazyExpire) unless a later store replaces it, and is what Get finds      *)
(* until its lazyExpire has passed; and a lazy hit on the key with no       *)
(* refresh in flight starts a new refresh.                                  *)
C30_StaleKeptUntilLazyExpire ==
    [][\A key \in CacheKeys :
          /\ nExec'[key] < nExec[key] =>
                \/ lru'[key] = lru[key]
                \/ lru'[key].path = "lazy" /\ TryStoreAccepts(lru'[key].r)
          /\ (StaleKept(key) /\ lru'[key] # lru[key]) =>
                \/ lru'[key].present
                \/ lru[key].lazyExpire <= Unix
          /\ \A i \in QueryIndexes :
                (/\ StaleKept(key) /\ ~closed /\ lru[key].lazyExpire > Unix
                 /\ cq[i].pc = "idle" /\ cq'[i].pc # "idle" /\ cq'[i].key = key) =>
                   cq'[i].ok
          /\ \A i \in QueryIndexes :
                (/\ cq[i].pc = "hit" /\ cq'[i].pc = "returned"
                 /\ cq[i].key = key /\ cq[i].lazyHit /\ ~sfCalls[key]) =>
                   /\ lazyRuns'[key] = lazyRuns[key] + 1
                   /\ nExec'[key] = nExec[key] + 1]_vars

(* C30 witness: a refresh of the key has ended without storing, the entry   *)
(* is the one the miss path stored, and at the next second of the wall      *)
(* clock its lazyExpire is 599 seconds away.                                *)
C30_FailedRefreshEntryKept ==
    \E key \in CacheKeys :
       /\ StaleKept(key)
       /\ nDefer[key] = 0
       /\ ~sfCalls[key]
       /\ ~closed
       /\ Unix = 1
       /\ lru[key].lazyExpire > Unix

(* C31: a query that Get answers goes to the hit path and returns from it   *)
(* without the rest of the chain being run for it; a query that Get does    *)
(* not answer runs the rest of the chain once and returns, and the miss     *)
(* path stores an entry only in the step in which that chain returns.       *)
C31_HitSkipsNextMissRunsOnce ==
    [][/\ \A i \in QueryIndexes :
             /\ (cq[i].pc = "idle" /\ cq'[i].pc # "idle" /\ cq'[i].key # << >>) =>
                   cq'[i].pc = IF MemCacheGet(cq'[i].key).ok THEN "hit" ELSE "next"
             /\ cq[i].pc = "hit" => cq'[i].pc \in {"hit", "returned"}
             /\ cq[i].pc = "next" => cq'[i].pc \in {"next", "returned"}
             /\ cq[i].pc = "returned" => cq'[i].pc = "returned"
       /\ \A key \in CacheKeys :
             (lru'[key] # lru[key] /\ lru'[key].path = "miss") =>
                \E i \in QueryIndexes :
                   cq[i].pc = "next" /\ cq[i].key = key /\ cq'[i].pc = "returned"]_vars

(* C31 witness: a query is returning from the hit path with the entry that  *)
(* an earlier query stored after its chain had run.                         *)
C31_HitReturnsStoredEntry ==
    /\ last.pc = "done"
    /\ last.ok
    /\ lru[last.key].present
    /\ lru[last.key].path = "miss"
    /\ \E i \in QueryIndexes : cq[i].pc = "returned"

(* C32: when Entry.Exec returned an error, the reply ServeDNS returns for   *)
(* the query has rcode SERVFAIL.                                            *)
C32_GraphErrorGivesServFail ==
    (graphRan /\ graphErr # "nil" /\ ~handlerR.nil) => handlerR.Rcode = RcodeServerFailure

(* C32 witness: the graph returned an error after a plugin had set a        *)
(* NOERROR response, and ServeDNS returned that response.                   *)
C32_ErrorWithResponseReturned ==
    /\ graphRan
    /\ graphErr # "nil"
    /\ ~handlerR.nil
    /\ handlerR.Rcode = RcodeSuccess
    /\ Len(handlerR.Answer) > 0

(* C33: an entry stored for a response with an empty Answer section has     *)
(* expire = stored time + 300, whatever the TTLs of its other records.      *)
C33_EmptyAnswerUsesFloor ==
    LET e == lru[GetMsgKey(TsQuery)] IN
    (tsDone /\ e.present /\ Len(tsReply.Answer) = 0) =>
        e.expire = e.storedTime + DefaultEmptyTTL

(* C33 witness: a stored NOERROR response without answers whose SOA record  *)
(* has TTL 60 and whose additional record has TTL 30.                       *)
C33_EmptyAnswerWithSoaStored ==
    LET e == lru[GetMsgKey(TsQuery)] IN
    /\ tsDone
    /\ e.present
    /\ Len(tsReply.Answer) = 0
    /\ Len(tsReply.Ns) = 1 /\ tsReply.Ns[1].Ttl = 60
    /\ Len(tsReply.Extra) = 1 /\ tsReply.Extra[1].Ttl = 30

(* C34: one invocation of a condition node runs one continuation: the then  *)
(* subchain when the matcher is true, the else subchain when it is false,   *)
(* the outer next directly when the matcher or the selected subchain is     *)
(* absent, and none of them on a matcher error; a subchain whose nodes all  *)
(* go on ends by running the outer next, which runs at most once.           *)
C34_OneContinuation ==
    /\ ranThen + ranElse <= 1
    /\ ranNext <= 1
    /\ cnPc.at # "cond" =>
          /\ cnMatcher = "error" =>
                ranThen = 0 /\ ranElse = 0 /\ ranNext = 0 /\ cnErr # "nil"
          /\ (cnMatcher = "true" /\ cnThen > 0) => (ranThen = 1 /\ ranElse = 0)
          /\ (cnMatcher = "false" /\ cnElse > 0) => (ranElse = 1 /\ ranThen = 0)
          /\ (\/ cnMatcher = "absent"
              \/ cnMatcher = "true" /\ cnThen = 0
              \/ cnMatcher = "false" /\ cnElse = 0) =>
                ranThen = 0 /\ ranElse = 0 /\ (cnNext => ranNext = 1)
    /\ (cnPc.at = "done" /\ ~cnStopped /\ cnMatcher # "error" /\ cnNext) => ranNext = 1

(* C34 witness: the matcher was false, the else subchain of two nodes ran   *)
(* to its end and then the outer next ran, with a then subchain present.    *)
C34_ElseThenOuterNext ==
    /\ cnPc.at = "done"
    /\ cnMatcher = "false"
    /\ cnThen > 0
    /\ cnElse = MaxSubchain
    /\ ranElse = 1
    /\ ranThen = 0
    /\ ranNext = 1
    /\ ~cnStopped

(* C35: while a request evaluates the expression with a placeholder, no     *)
(* other request holds that placeholder, its ctx and qCtx are the           *)
(* request's, and every result in its map was recorded by this request;     *)
(* the results a request logs are its own.                                  *)
C35_NoCrossRequestLeak ==
    \A r \in Requests :
       /\ phReq[r].pc \in {"held", "logged"} =>
             LET e == ph[phReq[r].p] IN
             /\ e.ctx = r
             /\ e.qCtx = r
             /\ \A v \in ExprVars : e.res[v].by \in {0, r}
             /\ \A o \in Requests \ {r} :
                   phReq[o].pc \in {"held", "logged"} => phReq[o].p # phReq[r].p
       /\ \A v \in ExprVars : phReq[r].seen[v].by \in {0, r}

(* C35 witness: a request evaluates with a placeholder that an earlier      *)
(* request used for both variables and put back, and has read one variable  *)
(* itself.                                                                  *)
C35_ReusedPlaceholderEvaluated ==
    \E r \in Requests, o \in Requests :
       /\ o # r
       /\ phReq[o].pc = "done"
       /\ phReq[o].p = phReq[r].p
       /\ \A v \in ExprVars : phReq[o].seen[v].by = o
       /\ phReq[r].pc = "logged"
       /\ \E v \in ExprVars : phReq[r].seen[v].by = r
       /\ \E v \in ExprVars : phReq[r].seen[v].by = 0

(* C36: a CloseWait that has returned finds Done called and no goroutine    *)
(* started through Attach still short of its done callback.                 *)
C36_CloseWaitAfterAllDone ==
    \A c \in Closers :
       scWait[c] = "returned" =>
          /\ scDone
          /\ \A a \in Attachers : scSub[a] # "running"

(* C36 witness: two CloseWait calls have returned after two attached        *)
(* goroutines finished, and none was refused.                               *)
C36_BothClosersReturned ==
    /\ \A c \in Closers : scWait[c] = "returned"
    /\ \A a \in Attachers : scSub[a] = "finished"

(* The elements of the list from element e on, following next, at most n    *)
(* of them.                                                                 *)
RECURSIVE LnWalk(_, _, _)
LnWalk(q, e, n) ==
    IF e = 0 \/ n = 0 THEN << >> ELSE <<e>> \o LnWalk(q, q.nodes[e].next, n - 1)

(* C37: an Add of a key that is not present to a full shard calls onEvict   *)
(* once, for the key least recently added or returned by Get; that key is   *)
(* gone, the new one is there, and the length is still the capacity.        *)
C37_FullAddEvictsOldest ==
    (lnLast.op = "Add" /\ ~lnLast.present /\ lnLast.full) =>
        /\ lnLast.evicts = <<lnLast.oldest>>
        /\ lq.m[lnLast.oldest] = 0
        /\ lq.m[lnLast.key] # 0
        /\ lq.length = LnMaxSize
        /\ Len(LnWalk(lq, lq.front, LnMaxSize + 1)) = LnMaxSize

(* C37 witness: the full shard evicted key 2 for key 3 and kept key 1,      *)
(* which sits in the element that was allocated first.                      *)
C37_OldestEvictedFirstKept ==
    /\ lnLast.op = "Add"
    /\ ~lnLast.present
    /\ lnLast.full
    /\ lnLast.evicts = <<2>>
    /\ lnLast.key = 3
    /\ lq.m[1] = 1
    /\ lnRecency[Len(lnRecency)] = 3

(* C39: the map and the list hold the same keys: the list from front has    *)
(* length elements, ends at back and is linked both ways, each element's    *)
(* key maps to that element, every map entry is an element of the list      *)
(* with that key, and the length is at most maxSize.                        *)
C39_MapMatchesList ==
    LET w == LnWalk(lq, lq.front, LnMaxSize + 2) IN
    /\ Len(w) = lq.length
    /\ lq.length <= LnMaxSize
    /\ lq.back = IF w = << >> THEN 0 ELSE w[Len(w)]
    /\ \A i \in 1..Len(w) :
          /\ lq.nodes[w[i]].list
          /\ lq.nodes[w[i]].prev = IF i = 1 THEN 0 ELSE w[i - 1]
          /\ lq.nodes[w[i]].key \in LnKeys
          /\ lq.m[lq.nodes[w[i]].key] = w[i]
    /\ \A k \in LnKeys :
          lq.m[k] # 0 => (lq.nodes[lq.m[k]].key = k /\ \E i \in 1..Len(w) : w[i] = lq.m[k])
    /\ Cardinality(LnPresent(lq)) = lq.length

(* C39 witness: a full shard right after Add reused its oldest element     *)
(* for a new key: the element is at the back, linked behind another one.    *)
C39_ReusedElementAtBack ==
    /\ lq.length = LnMaxSize
    /\ lnLast.op = "Add"
    /\ ~lnLast.present
    /\ lnLast.full
    /\ lnLast.evicts = <<1>>
    /\ lq.m[1] = 0
    /\ lq.m[lnLast.key] = lq.back
    /\ lq.nodes[lq.back].prev # 0
    /\ lq.front # lq.back

(* C38: for every byte string, ExtractTTLOffsets reads no index outside the *)
(* bytes, records at most eight offsets, every recorded offset has          *)
(* offset + 4 <= len(wire), and the hit path's rewrite with these offsets   *)
(* stays inside the per-request buffer of len(packet) bytes.                *)
C38_OffsetsInsideWire ==
    /\ ExtractReads(exWire) \subseteq 0..(Len(exWire) - 1)
    /\ exPc # "new" =>
          /\ exCount <= MaxTTLOffsets
          /\ \A i \in 1..exCount : exOffsets[i] + 4 <= Len(exWire)
    /\ exPanic = FALSE
    /\ exPc = "hit" => Len(exRespRaw) = Len(exWire)

(* A hit on bytes whose header announces nine answers, cut off right after  *)
(* the RDLENGTH of the second record: both offsets recorded and rewritten.  *)
C38_RewroteCutOffMessage ==
    /\ exPc = "hit"
    /\ Len(exWire) >= 12
    /\ Uint16(exWire, 6) = 9
    /\ exCount = 2
    /\ exOffsets[2] + 6 = Len(exWire)
    /\ Uint16(exRespRaw, exOffsets[1]) = 0
    /\ Uint16(exRespRaw, exOffsets[1] + 2) = 1
    /\ Uint16(exRespRaw, exOffsets[2] + 2) = 300 - ExElapsed

(* An exchange between its claim and its return.                            *)
UdInFlight(e) == udPc[e] \in {"claimed", "select", "tcpTransport", "return"}

(* The entry under the exchange's identifier is its own.                    *)
UdOwns(e) == UdInFlight(e) /\ udPending[udId[e]].owner = e

(* An exchange that has still to take its reply from its channel.           *)
StillWaiting(pc) == pc \in {"claimed", "select"}

(* C40: at most one in-flight exchange owns an identifier in the pending    *)
(* table, every entry belongs to an exchange in flight with that            *)
(* identifier, an exchange's unclaimID removes and nil-notifies no entry of *)
(* another exchange that is still waiting, and the janitor removes only     *)
(* entries whose deadline has passed.                                       *)
C40_PendingEntryOnlyItsOwners ==
    /\ \A e1, e2 \in Exchanges :
          (UdOwns(e1) /\ UdOwns(e2) /\ udId[e1] = udId[e2]) => e1 = e2
    /\ \A id \in UdIds :
          udPending[id].owner # 0 =>
             UdInFlight(udPending[id].owner) /\ udId[udPending[id].owner] = id
    /\ udLast.op = "unclaimID" =>
          \A r \in udLast.removed : r.owner = udLast.by \/ ~StillWaiting(r.pc)
    /\ udLast.op = "pendingJanitor" => \A r \in udLast.removed : r.expired

(* An exchange's unclaimID has just removed the entry of another exchange   *)
(* that waits in its select, and that exchange finds nil in its channel.    *)
C40_UnclaimRemovedWaitingOther ==
    /\ udLast.op = "unclaimID"
    /\ \E r \in udLast.removed :
          /\ r.owner # udLast.by
          /\ r.pc = "select"
          /\ ~r.expired
          /\ udPc[r.owner] = "select"
          /\ udCh[r.owner] = <<"nil">>
          /\ udPending[udId[r.owner]].owner = 0

=============================================================================
